---------------------------- MODULE Spec2Model ----------------------------
(***************************************************************************)
(* Cycle-level model of the Payload Executor gateware                      *)
(* (rowhammer_tester/gateware/payload_executor.py).                        *)
(*                                                                         *)
(* The design is synchronous: one step of the model is one clock cycle.    *)
(* Combinational signals are operators over the registers of the current   *)
(* cycle, registered signals are the variables, and every action assigns   *)
(* the value each register takes at the clock edge that ends the cycle.    *)
(* There is one action per branch of the executor FSM; each of them also   *)
(* commits the fetcher, the instruction register, the command emitter,     *)
(* the bus switch, the refresh counter and the status counters, which all  *)
(* share the clock.                                                        *)
(*                                                                         *)
(* A 32-bit instruction word is kept as the pair of its bit slices         *)
(* [op |-> instruction[0:3], tail |-> instruction[3:32]], the same split   *)
(* the decoder makes, so that every field stays below 2^31.                *)
(***************************************************************************)
EXTENDS Integers, Sequences, FiniteSets, TLC

(***************************************************************************)
(* OpCode and the field widths of the Decoder                              *)
(***************************************************************************)
NOOP == 0
LOOP == 7
ACT == 4
PRE == 5
REF == 6
ZQC == 1
READ == 2

OP_CODE == 3
TIMESLICE == 5
ADDRESS == 24
TIMESLICE_NOOP == TIMESLICE + ADDRESS
LOOP_COUNT == 12
LOOP_JUMP == 17
PIPELINE_DELAY == 2

(***************************************************************************)
(* Build parameters of the instance that is checked                        *)
(***************************************************************************)
nranks == 2
rankbits == 1
bankbits == 4
rowcolbits == 16
nphases == 4
rdphase == 1
AddrBits == 2
Depth == 2 ^ AddrBits
SpDepth == 4

(***************************************************************************)
(* Bounds of the exploration                                               *)
(***************************************************************************)
MaxCycle == 28        \* cycles explored from reset
LongCycle == 50       \* cycles explored for the ten-iteration loop scenario
MaxRuns == 2          \* start strobes accepted in READY
MaxReadyWait == 1     \* READY cycles the host lets pass before a start
MaxStray == 1         \* start strobes written while a run is in progress
MaxRefresh == 3       \* refresh commands the memory controller issues
MaxReads == 5         \* cycles in which the bus returns read data
MaxUpdates == 2       \* refresh_update strobes the host writes

Phases == 0 .. (nphases - 1)
Ranks == 0 .. (nranks - 1)
Addrs == 0 .. (Depth - 1)
SpAddrs == 0 .. (SpDepth - 1)
Bit(b) == IF b THEN 1 ELSE 0
Max(a, b) == IF a >= b THEN a ELSE b
Min(a, b) == IF a <= b THEN a ELSE b

(***************************************************************************)
(* Instruction format: OP_CODE | TIMESLICE | ADDRESS, OP_CODE |            *)
(* TIMESLICE_NOOP, OP_CODE | COUNT | JUMP, and ADDRESS = RANK | BANK | ROW *)
(***************************************************************************)
WordDfi(op, ts, addr) == [op |-> op, tail |-> ts + (2 ^ TIMESLICE) * addr]
WordNoop(ts) == [op |-> NOOP, tail |-> ts]
WordLoop(count, jmp) == [op |-> LOOP, tail |-> count + (2 ^ LOOP_COUNT) * jmp]
WordStop == WordNoop(0)
PackAddress(rank, bank, rowcol) ==
    rank + (2 ^ rankbits) * (bank + (2 ^ bankbits) * rowcol)

(***************************************************************************)
(* Decoder: combinational over one instruction word                        *)
(***************************************************************************)
op_code(w) == w.op
timeslice(w) ==
    IF op_code(w) = NOOP THEN w.tail % (2 ^ TIMESLICE_NOOP)
    ELSE w.tail % (2 ^ TIMESLICE)
address(w) == (w.tail \div (2 ^ TIMESLICE)) % (2 ^ ADDRESS)
loop_count(w) == w.tail % (2 ^ LOOP_COUNT)
loop_jump(w) == (w.tail \div (2 ^ LOOP_COUNT)) % (2 ^ LOOP_JUMP)
stop(w) == op_code(w) = NOOP /\ timeslice(w) = 0
cas(w) == (op_code(w) \div 2) % 2
\* variant: RAS taken from opcode bit 1
ras_FromBit1(w) == (op_code(w) \div 2) % 2
ras(w) == (op_code(w) \div 4) % 2
we(w) == op_code(w) % 2
dfi_bank(w) == (address(w) \div (2 ^ rankbits)) % (2 ^ bankbits)
dfi_address(w) == (address(w) \div (2 ^ (rankbits + bankbits))) % (2 ^ rowcolbits)
dfi_rank(w) == address(w) % (2 ^ rankbits)

(***************************************************************************)
(* Encoder: the helper the host writes payloads with.  An instruction      *)
(* specification is the record of the keyword arguments it was built from, *)
(* None standing for an argument that was not given.  A list of parts is a *)
(* sequence of (width, value) pairs, lowest bits first.                    *)
(***************************************************************************)
None == 0 - 1
Part(width, val) == [width |-> width, val |-> val]

\* variant: no DFI instruction requires an address
Accepted_NoAddressCheck(I) ==
    IF I.op_code = LOOP THEN I.count < 2 ^ LOOP_COUNT
    ELSE IF I.op_code = NOOP THEN I.timeslice < 2 ^ TIMESLICE_NOOP
    ELSE I.timeslice # 0

\* Instruction.__init__: the assertions of the three branches
Accepted(I) ==
    IF I.op_code = LOOP THEN I.count < 2 ^ LOOP_COUNT
    ELSE IF I.op_code = NOOP THEN I.timeslice < 2 ^ TIMESLICE_NOOP
    ELSE /\ I.timeslice # 0
         /\ (I.address # None \/ I.op_code \in {REF})

\* variant: the timeslice field is not kept above zero
base_timeslice_NoFloor(I) == I.timeslice % (2 ^ TIMESLICE)

\* max(timeslice & (2**Decoder.TIMESLICE - 1), 1)
base_timeslice(I) == Max(I.timeslice % (2 ^ TIMESLICE), 1)

\* variant: a NOOP packed into the timeslice field of a DFI instruction
NoopParts_Narrow(ts) == <<Part(OP_CODE, NOOP), Part(TIMESLICE, ts)>>

NoopParts(ts) == <<Part(OP_CODE, NOOP), Part(TIMESLICE_NOOP, ts)>>

\* Instruction._parts
parts(I) ==
    IF I.op_code = LOOP
    THEN <<Part(OP_CODE, I.op_code), Part(LOOP_COUNT, I.count),
           Part(LOOP_JUMP, I.jump)>>
    ELSE IF I.op_code = NOOP THEN NoopParts(I.timeslice)
    ELSE <<Part(OP_CODE, I.op_code), Part(TIMESLICE, base_timeslice(I)),
           Part(ADDRESS, IF I.address = None THEN 0 ELSE I.address)>>

\* for i in range(0, remaining, Decoder.TIMESLICE_NOOP - 1)
RECURSIVE NoopsFrom(_, _)
NoopsFrom(remaining, i) ==
    IF i >= remaining THEN << >>
    ELSE <<NoopParts(Min(remaining - i, TIMESLICE_NOOP - 1))>>
         \o NoopsFrom(remaining, i + (TIMESLICE_NOOP - 1))

\* Instruction._noops, empty where the attribute is not set
noops(I) ==
    IF I.op_code \notin {LOOP, NOOP} /\ base_timeslice(I) # I.timeslice
    THEN NoopsFrom(I.timeslice - base_timeslice(I), 0)
    ELSE << >>

\* encode_spec, inner loop: instr |= (val & mask) << n over the parts from
\* the k-th on.  The first part of every list is the opcode, OP_CODE bits
\* wide, so the parts after it make up instruction[OP_CODE:]; n counts from
\* that bit.
RECURSIVE PackFrom(_, _, _)
PackFrom(fields, k, n) ==
    IF k > Len(fields) THEN 0
    ELSE (fields[k].val % (2 ^ fields[k].width)) * (2 ^ n)
         + PackFrom(fields, k + 1, n + fields[k].width)

Pack(fields) ==
    [op |-> fields[1].val % (2 ^ fields[1].width), tail |-> PackFrom(fields, 2, 0)]

\* encode_spec: the instruction's word, then one word per extra NOOP
encode_spec(I) ==
    LET instrs_to_enc == <<parts(I)>> \o noops(I)
    IN  [k \in 1 .. Len(instrs_to_enc) |-> Pack(instrs_to_enc[k])]

\* Encoder.encode: the words, or the failed assertion
encode(I) ==
    IF Accepted(I) THEN [ok |-> TRUE, words |-> encode_spec(I)]
    ELSE [ok |-> FALSE, words |-> << >>]

RECURSIVE BitOr(_, _)
BitOr(a, b) ==
    IF a = 0 THEN b
    ELSE IF b = 0 THEN a
    ELSE Max(a % 2, b % 2) + 2 * BitOr(a \div 2, b \div 2)

log2_int(n) == CHOOSE r \in 0 .. ADDRESS : 2 ^ r = n

\* variant: the rank is or-ed in without making room for it
EncoderAddress_NoShift(rank, bank, row, col) ==
    LET rowcol == IF row # None THEN row ELSE IF col # None THEN col ELSE 0
    IN  BitOr(BitOr(bank % (2 ^ bankbits), rowcol * (2 ^ bankbits)), rank)

\* Encoder.address, for the calls that pass its assertion
EncoderAddress(rank, bank, row, col) ==
    LET rowcol == IF row # None THEN row ELSE IF col # None THEN col ELSE 0
        packed == BitOr(bank % (2 ^ bankbits), rowcol * (2 ^ bankbits))
    IN  IF nranks > 1
        THEN BitOr(packed * (2 ^ log2_int(nranks)), rank)
        ELSE packed

\* Encoder.address fails when both a row and a column are given, and when
\* no rank is given to a multi-rank encoder
AddressAccepted(rank, bank, row, col) ==
    /\ ~(row # None /\ col # None)
    /\ nranks > 1 => rank # None

VARIABLES
    mem,                  \* payload memory contents, Addrs -> word
    with_refresh,         \* DFISwitch build parameter
    env,                  \* what the host and the controller do in this behaviour
    at_refresh,           \* DFISwitch.at_refresh
    fsm,                  \* PayloadExecutor.fsm state
    wants_dfi,            \* DFISwitch.wants_dfi (driven by the executor)
    loop_counter,         \* PayloadExecutor.loop_counter
    idle_counter,         \* PayloadExecutor.idle_counter
    instruction,          \* PayloadExecutor.instruction
    mem_data,             \* payload_port.dat_r
    program_counter,      \* Fetcher.program_counter
    program_counter_old,  \* Fetcher.program_counter_old
    dfi,                  \* the emitter's registered outputs, per phase
    dfisw,                \* DFISwitch.fsm state
    refresh_counter,      \* RefreshCounter.counter
    refresh_count,        \* DFISwitch._refresh_count.status
    mc_ongoing_d,         \* DFISwitch.add_csrs: mc_ongoing, one cycle later
    cycle_counter,        \* PayloadExecutor cycle_counter
    exec_start,           \* PayloadExecutor.exec_start
    exec_stop,            \* PayloadExecutor.exec_stop
    sp_counter,           \* Scratchpad.counter
    sp_overflow,          \* Scratchpad.overflow
    wr_adr,               \* Scratchpad wr_port.adr
    wr_dat,               \* Scratchpad wr_port.dat_w, per phase
    wr_we,                \* Scratchpad wr_port.we, the phases whose lanes are enabled
    sp_mem,               \* scratchpad memory contents, SpAddrs -> word
    seen,                 \* observation: the read data returned so far
    last,                 \* observation: what the previous cycle did
    run,                  \* observation: statistics of the current run
    request,              \* what the host asks the Encoder for
    payload               \* what the Encoder returned, and whether it was loaded

vars == <<mem, with_refresh, env, at_refresh, fsm, wants_dfi,
          loop_counter, idle_counter, instruction, mem_data, program_counter,
          program_counter_old, dfi, dfisw, refresh_counter, refresh_count,
          mc_ongoing_d, cycle_counter,
          exec_start, exec_stop, sp_counter, sp_overflow, wr_adr, wr_dat,
          wr_we, sp_mem, seen, last, run, request, payload>>


(***************************************************************************)
(* Combinational signals of the current cycle                              *)
(***************************************************************************)
IdlePhase ==
    [cs_n |-> [r \in Ranks |-> 1], cas_n |-> 1, ras_n |-> 1, we_n |-> 1,
     address |-> 0, bank |-> 0, rddata_en |-> 0]

\* variant: the fetcher runs while the executor waits for the bus
stall_NotInWaitDfi == fsm \in {"READY", "IDLE"}

\* FSM.act outputs of PayloadExecutor
stall == fsm \in {"READY", "WAIT-DFI", "IDLE"}
executing == fsm \in {"RUN", "IDLE", "BUBBLE"}
ready == fsm = "READY"
reset_pc == fsm = "READY"

\* variant: the scratchpad is reset while READY instead of while waiting
scratchpad_reset_InReady == fsm = "READY"

scratchpad_reset == fsm = "WAIT-DFI"

\* variant: the memory always sees the program counter
mem_addr_Unstalled == program_counter + 0 * PIPELINE_DELAY

\* Fetcher: the address presented to the payload memory
mem_addr == IF stall THEN program_counter_old ELSE program_counter

\* variant: a STOP is honoured only outside a loop
terminate_StopOutsideLoop ==
    /\ fsm = "RUN"
    /\ (mem_addr = PIPELINE_DELAY - 1 \/ (stop(instruction) /\ loop_counter = 0))
    /\ (op_code(instruction) # LOOP \/ loop_count(instruction) = loop_counter)

\* variant: the end of the memory is taken to be depth - PIPELINE_DELAY
terminate_AtDepthMinusDelay ==
    /\ fsm = "RUN"
    /\ (mem_addr = Depth - PIPELINE_DELAY \/ stop(instruction))
    /\ (op_code(instruction) # LOOP \/ loop_count(instruction) = loop_counter)

\* RUN: the termination test
terminate ==
    /\ fsm = "RUN"
    /\ (mem_addr = PIPELINE_DELAY - 1 \/ stop(instruction))
    /\ (op_code(instruction) # LOOP \/ loop_count(instruction) = loop_counter)

\* RUN: the LOOP branch that continues the loop
jump ==
    /\ fsm = "RUN"
    /\ ~terminate
    /\ op_code(instruction) = LOOP
    /\ loop_counter # loop_count(instruction)

\* RUN: the LOOP branch that finishes the loop
loop_finish ==
    /\ fsm = "RUN"
    /\ ~terminate
    /\ op_code(instruction) = LOOP
    /\ loop_counter = loop_count(instruction)

\* variant: the terminating cycle strobes the emitter too
exec_AlsoLast ==
    /\ fsm = "RUN"
    /\ op_code(instruction) # LOOP

\* RUN: the DFI branch strobes the emitter
exec ==
    /\ fsm = "RUN"
    /\ ~terminate
    /\ op_code(instruction) # LOOP

\* variant: the read phase is selected by the WE line being set
phase_OnWriteEnable ==
    IF exec /\ cas(instruction) = 1 /\ ras(instruction) = 0 /\ we(instruction) = 1
    THEN rdphase
    ELSE 0

\* RUN: the phase the command is sent on
phase ==
    IF exec /\ cas(instruction) = 1 /\ ras(instruction) = 0 /\ we(instruction) = 0
    THEN rdphase
    ELSE 0

jump_offset == loop_jump(instruction)

\* variant: a jump rewinds over jump_offset + 1 instructions
next_addr_OneFurther ==
    IF ~jump THEN (program_counter + 1) % Depth
    ELSE (program_counter - jump_offset - PIPELINE_DELAY - 1) % Depth

\* Fetcher.next_addr, in the width of mem_addr
next_addr ==
    IF ~jump THEN (program_counter + 1) % Depth
    ELSE (program_counter - jump_offset - PIPELINE_DELAY) % Depth

\* variant: the idle time is loaded one too high
IdleLoad_OneMore(w) == timeslice(w) - 1

\* RUN, DFI branch: the idle time loaded for a timeslice above 1
IdleLoad(w) == timeslice(w) - 2

\* variant: one bubble more than the pipeline needs
BubbleLoad_OneMore == PIPELINE_DELAY

\* WAIT-DFI and the LOOP branch: the bubbles that refill the pipeline
BubbleLoad == PIPELINE_DELAY - 1

\* variant: a jump leaves the loop counter as it is
LoopCounterNext_Stuck == loop_counter + 0 * PIPELINE_DELAY

\* variant: the loop counter advances by two per jump
LoopCounterNext_ByTwo == (loop_counter + 2) % (2 ^ LOOP_COUNT)

\* RUN, LOOP branch: the loop counter after a jump
LoopCounterNext == (loop_counter + 1) % (2 ^ LOOP_COUNT)

\* FSM.act outputs of DFISwitch
dfi_ready == IF dfisw = "PAYLOAD-EXECUTION" THEN 1 ELSE 0
\* variant: the mux follows the request instead of the switch state
ext_dfi_sel_OnRequest ==
    IF dfisw = "PAYLOAD-EXECUTION" \/ wants_dfi = 1 THEN 1 ELSE 0

ext_dfi_sel == IF dfisw = "PAYLOAD-EXECUTION" THEN 1 ELSE 0

\* variant: the refresher is held in reset while the executor owns the bus
refresher_reset_WhileOwned == IF dfisw = "PAYLOAD-EXECUTION" THEN 1 ELSE 0

refresher_reset == IF dfisw = "PAYLOAD-EXECUTION" /\ wants_dfi = 0 THEN 1 ELSE 0

\* RefreshCounter.refresh on one phase: cs_n=0, cas_n=0, ras_n=0, we_n=1
IsRefresh(p) ==
    /\ \A r \in Ranks : p.cs_n[r] = 0
    /\ p.cas_n = 0
    /\ p.ras_n = 0
    /\ p.we_n = 1

\* Phase 0 of the DFII master: the executor's outputs when ext_dfi_sel is
\* set, the controller's command otherwise (mc_ref: it is a refresh).
MasterRefresh(mc_ref) ==
    IF ext_dfi_sel = 1 THEN IsRefresh(dfi[0]) ELSE mc_ref

\* variant: the counter is compared without the +1
refresh_matches_NoPlusOne ==
    at_refresh = 0 \/ at_refresh = refresh_counter

\* variant: any refresh from the at_refresh-th on is accepted
refresh_matches_AtLeast ==
    at_refresh = 0 \/ at_refresh <= refresh_counter + 1

refresh_matches ==
    at_refresh = 0 \/ at_refresh = refresh_counter + 1

\* Whether a phase of the emitter's outputs carries a command
NonIdle(p) == (\E r \in Ranks : p.cs_n[r] = 0) \/ p.rddata_en = 1

(***************************************************************************)
(* Registered updates shared by every cycle                                *)
(***************************************************************************)
\* Fetcher.sync
FetcherSync ==
    IF ~stall
    THEN /\ program_counter' = next_addr
         /\ program_counter_old' = program_counter
    ELSE IF reset_pc
    THEN /\ program_counter' = 0
         /\ program_counter_old' = 0
    ELSE UNCHANGED <<program_counter, program_counter_old>>

\* variant: the instruction register follows the memory during a stall
InstructionSync_Unstalled ==
    /\ mem_data' = mem[mem_addr]
    /\ instruction' = mem_data

\* payload port (synchronous read) and the instruction register
InstructionSync ==
    /\ mem_data' = mem[mem_addr]
    /\ instruction' = IF ~stall THEN mem_data ELSE instruction

\* variant: a refresh selects the addressed rank only
ChipSelect_NoBroadcast(w) ==
    IF op_code(w) = NOOP THEN [r \in Ranks |-> 1]
    ELSE [r \in Ranks |-> IF r = dfi_rank(w) THEN 0 ELSE 1]

\* DFIExecutor: chip select of the selected phase
ChipSelect(w) ==
    IF op_code(w) = NOOP THEN [r \in Ranks |-> 1]
    ELSE IF op_code(w) = REF THEN [r \in Ranks |-> 0]
    ELSE [r \in Ranks |-> IF r = dfi_rank(w) THEN 0 ELSE 1]

\* variant: the command is sent on every phase
EmitPhase_EveryPhase(i) ==
    IF exec
    THEN [cs_n |-> ChipSelect(instruction),
          cas_n |-> 1 - cas(instruction),
          ras_n |-> 1 - ras(instruction),
          we_n |-> 1 - we(instruction),
          address |-> dfi_address(instruction),
          bank |-> dfi_bank(instruction),
          rddata_en |-> Bit(op_code(instruction) = READ)]
    ELSE [dfi[i] EXCEPT !.cs_n = [r \in Ranks |-> 1], !.cas_n = 1,
                        !.ras_n = 1, !.we_n = 1, !.rddata_en = 0]

\* DFIExecutor: next value of the outputs of phase i
EmitPhase(i) ==
    IF phase = i /\ exec
    THEN [cs_n |-> ChipSelect(instruction),
          cas_n |-> 1 - cas(instruction),
          ras_n |-> 1 - ras(instruction),
          we_n |-> 1 - we(instruction),
          address |-> dfi_address(instruction),
          bank |-> dfi_bank(instruction),
          rddata_en |-> Bit(op_code(instruction) = READ)]
    ELSE [dfi[i] EXCEPT !.cs_n = [r \in Ranks |-> 1], !.cas_n = 1,
                        !.ras_n = 1, !.we_n = 1, !.rddata_en = 0]

DFIExecutorSync == dfi' = [i \in Phases |-> EmitPhase(i)]

\* DFISwitch.fsm
SwitchNext(mc_ref) ==
    IF dfisw = "MEMORY-CONTROLLER"
    THEN IF wants_dfi = 1
         THEN IF with_refresh
              THEN IF MasterRefresh(mc_ref) /\ refresh_matches
                   THEN "PAYLOAD-EXECUTION"
                   ELSE "MEMORY-CONTROLLER"
              ELSE "PAYLOAD-EXECUTION"
         ELSE "MEMORY-CONTROLLER"
    ELSE IF wants_dfi = 0 THEN "MEMORY-CONTROLLER" ELSE "PAYLOAD-EXECUTION"

\* variant: only the memory controller's refreshes are counted
RefreshCounterNext_McOnly(mc_ref) ==
    IF MasterRefresh(mc_ref) /\ ext_dfi_sel = 0
    THEN refresh_counter + 1 ELSE refresh_counter

\* RefreshCounter on phase 0 of the master bus
RefreshCounterNext(mc_ref) ==
    IF MasterRefresh(mc_ref) THEN refresh_counter + 1 ELSE refresh_counter

DFISwitchSync(mc_ref) ==
    /\ dfisw' = SwitchNext(mc_ref)
    /\ refresh_counter' = RefreshCounterNext(mc_ref)

\* DFISwitch.add_csrs
pe_ongoing == dfisw = "PAYLOAD-EXECUTION"
mc_ongoing == dfisw = "MEMORY-CONTROLLER"
mc_to_pe == mc_ongoing_d = 1 /\ pe_ongoing

\* variant: the status follows the counter all through PAYLOAD-EXECUTION
RefreshCountNext_WhileOwned(refresh_update) ==
    IF pe_ongoing \/ refresh_update THEN refresh_counter ELSE refresh_count

RefreshCountNext(refresh_update) ==
    IF mc_to_pe \/ refresh_update THEN refresh_counter ELSE refresh_count

DFISwitchCsrSync(refresh_update) ==
    /\ mc_ongoing_d' = Bit(mc_ongoing)
    /\ refresh_count' = RefreshCountNext(refresh_update)

\* Payload Executor Status: later statements of the sync block win
ExecStartNext(start) ==
    IF executing /\ exec_start = 0 THEN cycle_counter
    ELSE IF start THEN 0 ELSE exec_start

\* variant: exec_stop snapshots the cycle counter itself
ExecStopNext_NoPlusOne(start) ==
    IF executing THEN cycle_counter
    ELSE IF start THEN 0 ELSE exec_stop

ExecStopNext(start) ==
    IF executing THEN cycle_counter + 1
    ELSE IF start THEN 0 ELSE exec_stop

\* The cycle counter is read by exec_start and exec_stop only; a behaviour
\* that is followed for ever (env.timed = FALSE) leaves it where it is.
StatusSync(start) ==
    /\ cycle_counter' = IF env.timed THEN cycle_counter + 1 ELSE cycle_counter
    /\ exec_start' = ExecStartNext(start)
    /\ exec_stop' = ExecStopNext(start)

\* The width Migen gives Signal(max=n + 1): bits_for(n)
BitsFor(n) == CHOOSE b \in 1 .. 16 : 2 ^ b > n /\ (b = 1 \/ 2 ^ (b - 1) <= n)

\* Scratchpad.counter is Signal(max=mem.depth - 1)
SpCounterBits == BitsFor(SpDepth - 2)

\* The read data the bus returns in a cycle whose read-valid phases are rv:
\* every phase carries the ordinal of this return, 0 when nothing returns.
RdData(rv) == [p \in Phases |-> IF rv = {} THEN 0 ELSE seen.reads + 1]

ZeroWord == [p \in Phases |-> 0]

\* Scratchpad: the cursor and the overflow flag when a write is registered
SpCounterNext ==
    IF wr_we # {}
    THEN IF sp_counter = SpDepth - 1 THEN 0
         ELSE (sp_counter + 1) % (2 ^ SpCounterBits)
    ELSE sp_counter

\* variant: the flag follows the wrap of the current cycle only
SpOverflowNext_NotSticky ==
    IF wr_we # {} /\ sp_counter = SpDepth - 1 THEN 1 ELSE 0

SpOverflowNext ==
    IF wr_we # {} /\ sp_counter = SpDepth - 1 THEN 1 ELSE sp_overflow

\* The write port: the lanes of the enabled phases are stored at wr_adr
SpMemNext ==
    IF wr_we = {} THEN sp_mem
    ELSE [sp_mem EXCEPT ![wr_adr] =
            [p \in Phases |-> IF p \in wr_we THEN wr_dat[p] ELSE @[p]]]

\* Scratchpad.sync under its ResetInserter; the memory itself is not reset
ScratchpadSync(rv) ==
    /\ sp_mem' = SpMemNext
    /\ IF scratchpad_reset
       THEN /\ sp_counter' = 0
            /\ sp_overflow' = 0
            /\ wr_adr' = 0
            /\ wr_dat' = ZeroWord
            /\ wr_we' = {}
       ELSE /\ sp_counter' = SpCounterNext
            /\ sp_overflow' = SpOverflowNext
            /\ wr_adr' = sp_counter
            /\ wr_dat' = RdData(rv)
            /\ wr_we' = rv


(***************************************************************************)
(* Observations kept beside the design's registers.  They are written by   *)
(* every cycle and read by no register update.                             *)
(***************************************************************************)
NoAddr == 0 - 1

\* What is kept of a run once the next one starts
NoRun ==
    [n |-> 0, hist |-> << >>, tbus |-> << >>, lc_at_start |-> 0,
     clean |-> TRUE, overflow |-> 0, wait_cycles |-> 0]

\* no jump taken within the last three cycles
NoJump == [from |-> NoAddr, offset |-> 0, age |-> 0, issued |-> << >>]

\* no RUN cycle yet in this run
NoDecode == [addr |-> NoAddr, jump |-> FALSE, offset |-> 0]

FreshRun(n, strays) ==
    [n |-> n,                        \* starts accepted so far
     strays |-> strays,              \* start strobes seen outside READY
     ready_wait |-> 0,               \* READY cycles since the last run
     clean |-> TRUE,                 \* no start strobe outside READY in this run
     stray_at |-> {},                \* the FSM states such strobes arrived in
     rc_at_start |-> refresh_counter,
     exec_cycles |-> 0,              \* cycles with executing asserted
     run_cycles |-> 0,               \* cycles spent in RUN
     issued |-> [a \in Addrs |-> 0], \* exec strobes per payload address
     jumps |-> [a \in Addrs |-> 0],  \* jumps taken per LOOP address
     finishes |-> [a \in Addrs |-> 0],
     first_lc |-> [a \in Addrs |-> NoAddr],
     trace |-> << >>,                \* opcodes of the commands strobed to the emitter
     order |-> << >>,                \* payload addresses of the exec strobes
     bus |-> << >>,                  \* commands seen on the emitter's outputs
     issue_ts |-> NoAddr,            \* timeslice of the instruction in progress
     issue_op |-> NoAddr,            \* its opcode
     since_issue |-> 0,              \* cycles since its RUN cycle
     ir_addr |-> NoAddr,             \* payload address held by instruction
     md_addr |-> NoAddr,             \* payload address held by mem_data
     rc_at_wants |-> refresh_counter,\* refresh_counter when wants_dfi rises
     lc_at_start |-> loop_counter,   \* loop_counter when the run starts
     wait_cycles |-> 0,              \* cycles spent in WAIT-DFI
     run_clock |-> NoAddr,           \* cycles since the first RUN cycle
     hist |-> << >>,                 \* the executor's registers, per executing cycle
     tbus |-> << >>,                 \* bus commands with their run_clock
     jumped |-> NoJump,              \* the last jump: its LOOP, offset and age
     decoded |-> NoDecode,           \* what the last RUN cycle decoded
     waited |-> 0,                   \* READY cycles before the start of this run
     prev |-> NoRun]                 \* the same observations of the previous run

\* the commands on the emitter's outputs in this cycle, lowest phase first
RECURSIVE BusFrom(_)
BusFrom(i) ==
    IF i = nphases THEN << >>
    ELSE (IF NonIdle(dfi[i])
          THEN <<[phase |-> i, cs_n |-> dfi[i].cs_n, ras_n |-> dfi[i].ras_n,
                  cas_n |-> dfi[i].cas_n, we_n |-> dfi[i].we_n,
                  bank |-> dfi[i].bank, address |-> dfi[i].address,
                  rddata_en |-> dfi[i].rddata_en]>>
          ELSE << >>) \o BusFrom(i + 1)

BusNow == BusFrom(0)

\* the executor's registers a start strobe could disturb
Core == <<fsm, program_counter, loop_counter, idle_counter, wants_dfi>>

Observe(start, mc_ref, rv, refresh_update) ==
    /\ last' = [fsm |-> fsm, instruction |-> instruction, exec |-> exec,
                phase |-> phase, jump |-> jump, terminate |-> terminate,
                loop_finish |-> loop_finish, dfisw |-> dfisw,
                wants_dfi |-> wants_dfi, refresh |-> MasterRefresh(mc_ref),
                mc_ref |-> mc_ref, dfi0 |-> dfi[0],
                refresh_update |-> refresh_update,
                stall |-> stall, reset_pc |-> reset_pc,
                exec_start |-> exec_start, exec_stop |-> exec_stop,
                cycle_counter |-> cycle_counter,
                jump_offset |-> jump_offset,
                program_counter |-> program_counter,
                program_counter_old |-> program_counter_old,
                refresh_count |-> refresh_count, before |-> last.dfisw,
                refresh_counter |-> refresh_counter, start |-> start,
                loop_counter |-> loop_counter, ir_addr |-> run.ir_addr,
                mem_addr |-> mem_addr, dfi_ready |-> dfi_ready,
                refresher_reset |-> refresher_reset, rv |-> rv,
                sp_counter |-> sp_counter, sp_overflow |-> sp_overflow,
                scratchpad_reset |-> scratchpad_reset]
    /\ seen' =
        [reads |-> IF rv # {} THEN seen.reads + 1 ELSE seen.reads,
         adjacent |-> IF scratchpad_reset THEN FALSE
                      ELSE seen.adjacent
                            \/ (rv # {} /\ last.rv # {} /\ ~last.scratchpad_reset),
         since |-> IF scratchpad_reset THEN << >>
                   ELSE IF rv # {}
                   THEN Append(seen.since, [data |-> seen.reads + 1, lanes |-> rv])
                   ELSE seen.since,
         updates |-> seen.updates + Bit(refresh_update)]
    /\ run' =
        IF ~env.timed THEN run
        ELSE IF fsm = "READY" /\ start
        THEN [FreshRun(run.n + 1, run.strays) EXCEPT
                 !.md_addr = mem_addr, !.ir_addr = run.ir_addr,
                 !.waited = run.ready_wait,
                 !.rc_at_wants = IF MasterRefresh(mc_ref) THEN @ + 1 ELSE @,
                 !.prev = [n |-> run.n, hist |-> run.hist, tbus |-> run.tbus,
                           lc_at_start |-> run.lc_at_start, clean |-> run.clean,
                           overflow |-> sp_overflow,
                           wait_cycles |-> run.wait_cycles]]
        ELSE [run EXCEPT
            !.strays = IF start /\ fsm # "READY" THEN @ + 1 ELSE @,
            !.clean = IF start /\ fsm # "READY" THEN FALSE ELSE @,
            !.stray_at = IF start /\ fsm # "READY" THEN @ \cup {fsm} ELSE @,
            !.ready_wait = IF fsm = "READY" THEN @ + 1 ELSE 0,
            !.exec_cycles = IF executing THEN @ + 1 ELSE @,
            !.run_cycles = IF fsm = "RUN" THEN @ + 1 ELSE @,
            !.issued = IF exec THEN [@ EXCEPT ![run.ir_addr] = @ + 1] ELSE @,
            !.jumps = IF jump THEN [@ EXCEPT ![run.ir_addr] = @ + 1] ELSE @,
            !.finishes = IF loop_finish \/ (terminate /\ op_code(instruction) = LOOP)
                         THEN [@ EXCEPT ![run.ir_addr] = @ + 1] ELSE @,
            !.first_lc = IF fsm = "RUN" /\ op_code(instruction) = LOOP
                            /\ @[run.ir_addr] = NoAddr
                         THEN [@ EXCEPT ![run.ir_addr] = loop_counter] ELSE @,
            !.trace = IF exec /\ op_code(instruction) # NOOP
                      THEN Append(@, op_code(instruction)) ELSE @,
            !.order = IF exec THEN Append(@, run.ir_addr) ELSE @,
            !.bus = @ \o BusNow,
            !.issue_ts = IF exec THEN timeslice(instruction)
                         ELSE IF fsm = "RUN" THEN NoAddr ELSE @,
            !.issue_op = IF exec THEN op_code(instruction)
                         ELSE IF fsm = "RUN" THEN NoAddr ELSE @,
            !.since_issue = IF exec THEN 1
                            ELSE IF fsm = "RUN" THEN 0 ELSE @ + 1,
            !.ir_addr = IF ~stall THEN run.md_addr ELSE @,
            !.md_addr = mem_addr,
            !.wait_cycles = IF fsm = "WAIT-DFI" THEN @ + 1 ELSE @,
            !.run_clock = IF @ # NoAddr THEN @ + 1
                          ELSE IF fsm = "RUN" THEN 1 ELSE @,
            !.hist = IF executing THEN Append(@, Core) ELSE @,
            !.decoded = IF fsm = "RUN"
                        THEN [addr |-> run.ir_addr, jump |-> jump,
                              offset |-> jump_offset]
                        ELSE @,
            !.jumped = IF jump
                       THEN [from |-> run.ir_addr, offset |-> jump_offset,
                             age |-> 1, issued |-> run.issued]
                       ELSE IF @.age \in 1 .. PIPELINE_DELAY
                       THEN [@ EXCEPT !.age = @ + 1]
                       ELSE NoJump,
            !.tbus = @ \o [i \in 1 .. Len(BusNow) |->
                              [at |-> run.run_clock, cmd |-> BusNow[i]]]]

(***************************************************************************)
(* One clock cycle.  start is the start CSR strobe, mc_ref says that the   *)
(* memory controller puts a refresh on phase 0 in this cycle, rv is the    *)
(* set of phases that report rddata_valid in this cycle.                   *)
(***************************************************************************)
InputOK(start, mc_ref, rv) ==
    /\ cycle_counter < env.horizon
    /\ mc_ref => (env.mc_refresh /\ dfisw = "MEMORY-CONTROLLER"
                    /\ refresh_counter < MaxRefresh)
    /\ (start /\ fsm = "READY") => run.n < env.runs
    /\ (start /\ fsm # "READY") => run.strays < env.strays
    /\ (~start /\ fsm = "READY") => run.ready_wait < MaxReadyWait
    /\ rv # {} => (rv \in env.lanes /\ seen.reads < env.reads)
    /\ payload.st \in {"none", "loaded"}

Datapath(start, mc_ref, rv) ==
    /\ InputOK(start, mc_ref, rv)
    /\ FetcherSync
    /\ InstructionSync
    /\ DFIExecutorSync
    /\ DFISwitchSync(mc_ref)
    /\ StatusSync(start)
    /\ ScratchpadSync(rv)
    /\ \E refresh_update \in BOOLEAN :
        /\ refresh_update => seen.updates < env.updates
        /\ DFISwitchCsrSync(refresh_update)
        /\ Observe(start, mc_ref, rv, refresh_update)
    /\ UNCHANGED <<mem, with_refresh, env, at_refresh, request, payload>>

TickReady(start, mc_ref, rv) ==
    /\ fsm = "READY"
    /\ fsm' = IF start THEN "WAIT-DFI" ELSE "READY"
    /\ wants_dfi' = IF start THEN 1 ELSE wants_dfi
    /\ UNCHANGED <<loop_counter, idle_counter>>
    /\ Datapath(start, mc_ref, rv)

\* variant: the executor does not wait for the bus
TickWaitDfi_Unready(start, mc_ref, rv) ==
    /\ fsm = "WAIT-DFI"
    /\ fsm' = "BUBBLE"
    /\ idle_counter' = BubbleLoad
    /\ UNCHANGED <<wants_dfi, loop_counter>>
    /\ Datapath(start, mc_ref, rv)

TickWaitDfi(start, mc_ref, rv) ==
    /\ fsm = "WAIT-DFI"
    /\ fsm' = IF dfi_ready = 1 THEN "BUBBLE" ELSE "WAIT-DFI"
    /\ idle_counter' = IF dfi_ready = 1 THEN BubbleLoad ELSE idle_counter
    /\ UNCHANGED <<wants_dfi, loop_counter>>
    /\ Datapath(start, mc_ref, rv)

\* variant: the termination leaves the bus request standing
TickRunTerminate_KeepRequest(start, mc_ref, rv) ==
    /\ fsm = "RUN"
    /\ terminate
    /\ fsm' = "READY"
    /\ UNCHANGED <<wants_dfi, loop_counter, idle_counter>>
    /\ Datapath(start, mc_ref, rv)

TickRunTerminate(start, mc_ref, rv) ==
    /\ fsm = "RUN"
    /\ terminate
    /\ wants_dfi' = 0
    /\ fsm' = "READY"
    /\ UNCHANGED <<loop_counter, idle_counter>>
    /\ Datapath(start, mc_ref, rv)

TickRunLoopJump(start, mc_ref, rv) ==
    /\ fsm = "RUN"
    /\ jump
    /\ loop_counter' = LoopCounterNext
    /\ fsm' = "BUBBLE"
    /\ idle_counter' = BubbleLoad
    /\ UNCHANGED wants_dfi
    /\ Datapath(start, mc_ref, rv)

TickRunLoopFinish(start, mc_ref, rv) ==
    /\ fsm = "RUN"
    /\ loop_finish
    /\ loop_counter' = 0
    /\ UNCHANGED <<fsm, wants_dfi, idle_counter>>
    /\ Datapath(start, mc_ref, rv)

TickRunDfi(start, mc_ref, rv) ==
    /\ fsm = "RUN"
    /\ exec
    /\ IF timeslice(instruction) = 0 \/ timeslice(instruction) = 1
       THEN UNCHANGED <<fsm, idle_counter>>
       ELSE /\ idle_counter' = IdleLoad(instruction)
            /\ fsm' = "IDLE"
    /\ UNCHANGED <<wants_dfi, loop_counter>>
    /\ Datapath(start, mc_ref, rv)

\* variant: a start strobe during IDLE abandons the run
TickIdle_StartAborts(start, mc_ref, rv) ==
    /\ fsm = "IDLE"
    /\ IF start
       THEN fsm' = "READY" /\ wants_dfi' = 0 /\ UNCHANGED idle_counter
       ELSE /\ IF idle_counter = 0
               THEN fsm' = "RUN" /\ UNCHANGED idle_counter
               ELSE idle_counter' = idle_counter - 1 /\ UNCHANGED fsm
            /\ UNCHANGED wants_dfi
    /\ UNCHANGED loop_counter
    /\ Datapath(start, mc_ref, rv)

TickIdle(start, mc_ref, rv) ==
    /\ fsm = "IDLE"
    /\ IF idle_counter = 0
       THEN fsm' = "RUN" /\ UNCHANGED idle_counter
       ELSE idle_counter' = idle_counter - 1 /\ UNCHANGED fsm
    /\ UNCHANGED <<wants_dfi, loop_counter>>
    /\ Datapath(start, mc_ref, rv)

TickBubble(start, mc_ref, rv) ==
    /\ fsm = "BUBBLE"
    /\ IF idle_counter = 0
       THEN fsm' = "RUN" /\ UNCHANGED idle_counter
       ELSE idle_counter' = idle_counter - 1 /\ UNCHANGED fsm
    /\ UNCHANGED <<wants_dfi, loop_counter>>
    /\ Datapath(start, mc_ref, rv)

(***************************************************************************)
(* Payload memories and build options the exploration starts from          *)
(***************************************************************************)
AddrA == PackAddress(1, 3, 4660)     \* rank 1, bank 3, row 0x1234
AddrB == PackAddress(0, 5, 7)

Program(w0, w1, w2, w3) ==
    [a \in Addrs |-> IF a = 0 THEN w0 ELSE IF a = 1 THEN w1
                     ELSE IF a = 2 THEN w2 ELSE w3]

\* one instruction of any opcode and timeslice, then STOP
SingleWords ==
    {WordDfi(op, ts, IF op \in {ACT, READ} THEN AddrA ELSE AddrB) :
        op \in {ACT, PRE, REF, ZQC, READ}, ts \in {0, 1, 2, 4}}
    \cup {WordNoop(ts) : ts \in {1, 2, 5}}
    \cup {WordStop}

SinglePrograms ==
    {Program(w, WordStop, WordStop, WordStop) : w \in SingleWords}

\* every memory over a small instruction set, loops of every shape included
LoopWords ==
    {WordDfi(ACT, 1, AddrA), WordDfi(PRE, 3, AddrB), WordStop,
     WordLoop(0, 1), WordLoop(1, 1), WordLoop(2, 2), WordLoop(1, 0),
     WordLoop(1, 3)}

LoopPrograms ==
    {Program(w0, w1, w2, w3) : w0 \in LoopWords, w1 \in LoopWords,
                               w2 \in LoopWords, w3 \in LoopWords}

\* the simple-loop scenario, with jump 1 and with jump 2
ScenarioLoop(j) ==
    Program(WordDfi(ACT, 1, AddrA), WordDfi(PRE, 1, AddrA),
            WordLoop(9, j), WordStop)

ScenarioPrograms == {ScenarioLoop(1), ScenarioLoop(2)}

\* the single-ACT scenario: ACT(timeslice=4, bank=3, row=0x1234), STOP
ScenarioAct == Program(WordDfi(ACT, 4, AddrA), WordStop, WordStop, WordStop)

\* handover scenarios: a short program under every gating option
GatePrograms ==
    {Program(WordDfi(REF, 2, 0), WordDfi(ACT, 1, AddrA), WordStop, WordStop),
     Program(WordStop, WordStop, WordStop, WordStop)}

\* payloads that are run twice: a loop followed by STOP, and a loop in the
\* last word of the memory
RerunLoop ==
    Program(WordDfi(ACT, 1, AddrA), WordDfi(PRE, 2, AddrB), WordLoop(1, 2),
            WordStop)
TailLoop ==
    Program(WordDfi(ACT, 1, AddrA), WordDfi(ACT, 1, AddrA),
            WordDfi(ACT, 1, AddrA), WordLoop(1, 1))
TwoLoops ==
    Program(WordDfi(ACT, 1, AddrA), WordLoop(2, 1), WordDfi(PRE, 1, AddrB),
            WordLoop(1, 1))
RerunPrograms == {RerunLoop, TailLoop, TwoLoops}

\* read scenarios: a READ that idles and a command after it, or nothing
ReadPrograms ==
    {Program(WordDfi(READ, 2, AddrA), WordDfi(ACT, 1, AddrB), WordStop, WordStop),
     Program(WordStop, WordStop, WordStop, WordStop)}

\* The host: one clean run, or restarts and start strobes during a run, or
\* one run after the other for ever, the cycles not being counted.
\* The controller: refresher stopped, or refreshing at any time.
\* The bus: no read data, or read data returned in any cycle.
OneRun(h) ==
    [mc_refresh |-> FALSE, runs |-> 1, strays |-> 0, horizon |-> h,
     reads |-> 0, lanes |-> {}, timed |-> TRUE,
     updates |-> 0]
Restless(mc, h) ==
    [mc_refresh |-> mc, runs |-> MaxRuns, strays |-> MaxStray, horizon |-> h,
     reads |-> 0, lanes |-> {}, timed |-> TRUE,
     updates |-> 0]
Gated(n, k, h) ==
    [mc_refresh |-> TRUE, runs |-> n, strays |-> k, horizon |-> h,
     reads |-> 0, lanes |-> {}, timed |-> TRUE,
     updates |-> 0]
\* the host polls the refresh count while the controller refreshes
Polled(k, h) ==
    [mc_refresh |-> TRUE, runs |-> 1, strays |-> 0, horizon |-> h,
     reads |-> 0, lanes |-> {}, timed |-> TRUE, updates |-> k]
Reading(n, l, h) ==
    [mc_refresh |-> FALSE, runs |-> MaxRuns, strays |-> 0, horizon |-> h,
     reads |-> n, lanes |-> l, timed |-> TRUE,
     updates |-> 0]

Endless ==
    [mc_refresh |-> FALSE, runs |-> 1, strays |-> 0, horizon |-> 1,
     reads |-> 0, lanes |-> {}, timed |-> FALSE,
     updates |-> 0]

\* the phase patterns of rddata_valid: none, all phases, the read phase only
ReadValids == {{}, Phases, {rdphase}}

Setups ==
    {[mem |-> m, with_refresh |-> FALSE, env |-> OneRun(MaxCycle), at_refresh |-> 0] :
        m \in LoopPrograms}
    \cup
    {[mem |-> m, with_refresh |-> FALSE, env |-> Restless(FALSE, MaxCycle),
      at_refresh |-> 0] : m \in SinglePrograms}
    \cup
    {[mem |-> m, with_refresh |-> FALSE, env |-> Restless(FALSE, LongCycle),
      at_refresh |-> 0] : m \in ScenarioPrograms}
    \cup
    {[mem |-> m, with_refresh |-> g, env |-> Gated(1, MaxStray, MaxCycle),
      at_refresh |-> r] : m \in GatePrograms, g \in BOOLEAN, r \in 0 .. MaxRefresh}
    \cup
    {[mem |-> m, with_refresh |-> TRUE, env |-> Gated(MaxRuns, 0, MaxCycle),
      at_refresh |-> 0] : m \in GatePrograms}
    \cup
    {[mem |-> m, with_refresh |-> g, env |-> Polled(MaxUpdates, MaxCycle - 10),
      at_refresh |-> r] : m \in GatePrograms, g \in BOOLEAN, r \in {0, 2}}
    \cup
    {[mem |-> m, with_refresh |-> FALSE, env |-> Restless(FALSE, LongCycle),
      at_refresh |-> 0] : m \in RerunPrograms}
    \cup
    {[mem |-> m, with_refresh |-> FALSE,
      env |-> Reading(MaxReads, {Phases}, MaxCycle), at_refresh |-> 0] :
        m \in ReadPrograms}
    \cup
    {[mem |-> m, with_refresh |-> FALSE,
      env |-> Reading(MaxReads - 3, {Phases, {rdphase}}, MaxCycle),
      at_refresh |-> 0] : m \in ReadPrograms}

\* Every register starts from its reset value; the emitter's outputs start
\* from the inactive levels of the DFI interface they drive.
Reset ==
    /\ fsm = "READY"
    /\ wants_dfi = 0
    /\ loop_counter = 0
    /\ idle_counter = 0
    /\ instruction = WordStop
    /\ mem_data = WordStop
    /\ program_counter = 0
    /\ program_counter_old = 0
    /\ dfi = [i \in Phases |-> IdlePhase]
    /\ dfisw = "MEMORY-CONTROLLER"
    /\ refresh_counter = 0
    /\ refresh_count = 0
    /\ mc_ongoing_d = 0
    /\ cycle_counter = 0
    /\ exec_start = 0
    /\ exec_stop = 0
    /\ sp_counter = 0
    /\ sp_overflow = 0
    /\ wr_adr = 0
    /\ wr_dat = ZeroWord
    /\ wr_we = {}
    /\ sp_mem = [a \in SpAddrs |-> ZeroWord]
    /\ seen = [reads |-> 0, adjacent |-> FALSE, since |-> << >>, updates |-> 0]
    /\ last = [fsm |-> "RESET", instruction |-> WordStop, exec |-> FALSE,
               phase |-> 0, jump |-> FALSE, terminate |-> FALSE,
               loop_finish |-> FALSE, dfisw |-> "MEMORY-CONTROLLER",
               wants_dfi |-> 0, refresh |-> FALSE, mc_ref |-> FALSE,
               dfi0 |-> IdlePhase, refresh_counter |-> 0,
               refresh_update |-> FALSE, refresh_count |-> 0,
               stall |-> TRUE, reset_pc |-> TRUE, jump_offset |-> 0,
               exec_start |-> 0, exec_stop |-> 0, cycle_counter |-> 0,
               program_counter |-> 0, program_counter_old |-> 0,
               before |-> "MEMORY-CONTROLLER",
               start |-> FALSE, loop_counter |-> 0, ir_addr |-> NoAddr,
               mem_addr |-> 0, dfi_ready |-> 0, refresher_reset |-> 0,
               rv |-> {}, sp_counter |-> 0, sp_overflow |-> 0,
               scratchpad_reset |-> FALSE]
    /\ run = FreshRun(0, 0)

\* the payload memory was written word by word, without the Encoder
NoInstruction ==
    [op_code |-> None, timeslice |-> None, address |-> None, count |-> None,
     jump |-> None]
NoRequest ==
    [kind |-> "none", I |-> NoInstruction, rank |-> None, bank |-> None,
     row |-> None, col |-> None]
NoPayload == [st |-> "none", address |-> None, words |-> << >>]

Init ==
    /\ \E s \in Setups :
        /\ mem = s.mem
        /\ with_refresh = s.with_refresh
        /\ env = s.env
        /\ at_refresh = s.at_refresh
    /\ request = NoRequest
    /\ payload = NoPayload
    /\ Reset

Next ==
    \E start \in BOOLEAN, mc_ref \in BOOLEAN, rv \in ReadValids :
        \/ TickReady(start, mc_ref, rv)
        \/ TickWaitDfi(start, mc_ref, rv)
        \/ TickRunTerminate(start, mc_ref, rv)
        \/ TickRunLoopJump(start, mc_ref, rv)
        \/ TickRunLoopFinish(start, mc_ref, rv)
        \/ TickRunDfi(start, mc_ref, rv)
        \/ TickIdle(start, mc_ref, rv)
        \/ TickBubble(start, mc_ref, rv)

Spec == Init /\ [][Next]_vars

(***************************************************************************)
(* The host building a payload with the Encoder: it asks for one           *)
(* instruction, or for an address that it puts into an ACT (row given) or  *)
(* a READ (otherwise), writes the words it gets to the start of the        *)
(* payload memory and runs them.                                           *)
(***************************************************************************)
execvars == <<with_refresh, env, at_refresh, fsm, wants_dfi,
              loop_counter, idle_counter, instruction, mem_data, program_counter,
              program_counter_old, dfi, dfisw, refresh_counter, refresh_count,
              mc_ongoing_d, cycle_counter,
              exec_start, exec_stop, sp_counter, sp_overflow, wr_adr, wr_dat,
              wr_we, sp_mem, seen, last, run>>

DfiOps == {ACT, PRE, REF, ZQC, READ}
DfiTimeslices == {0, 1, 2, 31, 32, 33, 40, 64, 100}
NoopTimeslices == {0, 1, 5, 2 ^ TIMESLICE_NOOP - 1, 2 ^ TIMESLICE_NOOP}
DfiAddresses ==
    {None, 0, AddrA, 2 ^ ADDRESS - 1, 2 ^ ADDRESS, 2 ^ ADDRESS + AddrB}
LoopCounts == {0, 1, 2, 2 ^ LOOP_COUNT - 1, 2 ^ LOOP_COUNT}
LoopJumps == {0, 1, 2 ^ LOOP_JUMP - 1, 2 ^ LOOP_JUMP, 2 ^ LOOP_JUMP + 1}

DfiI(op, ts, addr) ==
    [op_code |-> op, timeslice |-> ts, address |-> addr, count |-> None,
     jump |-> None]
NoopI(ts) ==
    [op_code |-> NOOP, timeslice |-> ts, address |-> None, count |-> None,
     jump |-> None]
LoopI(count, jmp) ==
    [op_code |-> LOOP, timeslice |-> None, address |-> None, count |-> count,
     jump |-> jmp]

Instructions ==
    {DfiI(op, ts, addr) : op \in DfiOps, ts \in DfiTimeslices,
                          addr \in DfiAddresses}
    \cup {NoopI(ts) : ts \in NoopTimeslices}
    \cup {LoopI(count, jmp) : count \in LoopCounts, jmp \in LoopJumps}

Requests ==
    {[kind |-> "encode", I |-> i, rank |-> None, bank |-> None, row |-> None,
      col |-> None] : i \in Instructions}
    \cup
    {[kind |-> "address", I |-> NoInstruction, rank |-> rank, bank |-> bank,
      row |-> row, col |-> col] :
        rank \in {None} \cup Ranks,
        bank \in {0, 5, 2 ^ bankbits - 1},
        row \in {None, 0, 4660, 2 ^ rowcolbits - 1},
        col \in {None, 0, 7, 2 ^ rowcolbits - 1}}

EncInit ==
    /\ mem = Program(WordStop, WordStop, WordStop, WordStop)
    /\ with_refresh = FALSE
    /\ env = OneRun(LongCycle)
    /\ at_refresh = 0
    /\ request \in Requests
    /\ payload = [st |-> "requested", address |-> None, words |-> << >>]
    /\ Reset

\* encoder.address(rank=..., bank=..., row=... or col=...)
Address ==
    /\ request.kind = "address"
    /\ payload.st = "requested"
    /\ payload' =
        IF AddressAccepted(request.rank, request.bank, request.row, request.col)
        THEN [st |-> "addressed",
              address |-> EncoderAddress(request.rank, request.bank,
                                         request.row, request.col),
              words |-> << >>]
        ELSE [st |-> "rejected", address |-> None, words |-> << >>]
    /\ UNCHANGED <<mem, request, execvars>>

\* the instruction the host asks for
Asked ==
    IF request.kind = "address"
    THEN DfiI(IF request.row # None THEN ACT ELSE READ, 1, payload.address)
    ELSE request.I

\* encoder(op_code, **kwargs)
Encode ==
    /\ \/ request.kind = "encode" /\ payload.st = "requested"
       \/ payload.st = "addressed"
    /\ payload' =
        IF encode(Asked).ok
        THEN [payload EXCEPT !.st = "encoded", !.words = encode(Asked).words]
        ELSE [payload EXCEPT !.st = "rejected"]
    /\ UNCHANGED <<mem, request, execvars>>

\* the host writes the words to the payload memory, which keeps the STOP
\* words it held behind them
Load ==
    /\ payload.st = "encoded"
    /\ Len(payload.words) < Depth
    /\ mem' = [a \in Addrs |-> IF a < Len(payload.words) THEN payload.words[a + 1]
                               ELSE mem[a]]
    /\ payload' = [payload EXCEPT !.st = "loaded"]
    /\ UNCHANGED <<request, execvars>>

EncNext ==
    \/ Address
    \/ Encode
    \/ Load
    \/ Next

EncSpec == EncInit /\ [][EncNext]_vars

(***************************************************************************)
(* The executor run for ever: the host starts one run after the other, the *)
(* refresh gating is off, and the clock never stops.                       *)
(***************************************************************************)
LiveWords ==
    {WordDfi(ACT, 1, AddrA), WordDfi(PRE, 2, AddrB), WordStop,
     WordLoop(1, 0), WordLoop(1, 1), WordLoop(1, 2)}

\* two loops whose second leaves a counter above the count of the first
WrapLoops ==
    Program(WordDfi(ACT, 1, AddrA), WordLoop(1, 1), WordDfi(PRE, 1, AddrB),
            WordLoop(2, 1))

LivePrograms ==
    {Program(w0, w1, w2, w3) : w0 \in LiveWords, w1 \in LiveWords,
                               w2 \in LiveWords, w3 \in LiveWords}
    \cup {WrapLoops}

LiveInit ==
    /\ mem \in LivePrograms
    /\ with_refresh = FALSE
    /\ env = Endless
    /\ at_refresh = 0
    /\ request = NoRequest
    /\ payload = NoPayload
    /\ Reset

\* every clock edge commits one of the FSM's branches
LiveSpec == LiveInit /\ [][Next]_vars /\ WF_vars(Next)


(***************************************************************************)
(* Properties                                                              *)
(***************************************************************************)
RunOver == fsm = "READY" /\ run.n >= 1

\* C1: in every reachable cycle the bus switch is in exactly one of its two
\* states, and the mux selects the executor (ext_dfi_sel = 1, dfi_ready = 1)
\* if and only if that state is PAYLOAD-EXECUTION; in every other cycle the
\* memory controller is selected (ext_dfi_sel = 0, dfi_ready = 0).
C1_BusOwnerExclusive ==
    \/ (dfisw = "PAYLOAD-EXECUTION" /\ ext_dfi_sel = 1 /\ dfi_ready = 1)
    \/ (dfisw = "MEMORY-CONTROLLER" /\ ext_dfi_sel = 0 /\ dfi_ready = 0)

C1_Witness ==
    /\ dfisw = "PAYLOAD-EXECUTION"
    /\ last.dfisw = "MEMORY-CONTROLLER"
    /\ ext_dfi_sel = 1
    /\ wants_dfi = 1

\* C2: an executed instruction that is neither LOOP nor STOP and decodes
\* timeslice T is followed by IDLE cycles only, and the next RUN cycle comes
\* exactly max(T, 1) cycles after its own RUN cycle: T - 1 IDLE cycles for
\* T >= 2, none for T in {0, 1}.
C2_TimesliceDuration ==
    run.issue_ts # NoAddr =>
        /\ fsm \in {"RUN", "IDLE"}
        /\ fsm = "RUN" => run.since_issue = Max(run.issue_ts, 1)
        /\ fsm = "IDLE" => (1 <= run.since_issue /\ run.since_issue < run.issue_ts)

C2_Witness ==
    /\ fsm = "RUN"
    /\ run.issue_ts = 4
    /\ run.since_issue = 4
    /\ last.fsm = "IDLE"


\* The addresses a LOOP at address a with jump j rewinds over, and whether
\* they hold neither a LOOP nor a STOP.
Block(a, j) == {(a - k) % Depth : k \in 1 .. j}
CleanBlock(a, j) ==
    \A b \in Block(a, j) : op_code(mem[b]) # LOOP /\ ~stop(mem[b])

\* The previous cycle was the RUN cycle in which the LOOP at address a found
\* its iterations finished, for the first time in this run.
JustFinished(a) ==
    /\ last.fsm = "RUN"
    /\ last.ir_addr = a
    /\ op_code(last.instruction) = LOOP
    /\ (last.loop_finish \/ last.terminate)
    /\ run.finishes[a] = 1

\* C3 as stated (read with the block inside the memory, J <= a): a LOOP
\* with count N first reached with loop_counter = 0 whose block holds no
\* LOOP and no STOP jumps exactly N times, every instruction of the block
\* is issued N + 1 times, and execution then falls through to the word
\* following the LOOP.
C3_Original ==
    \A a \in Addrs :
        LET n == loop_count(mem[a])
            j == loop_jump(mem[a])
        IN (op_code(mem[a]) = LOOP /\ j <= a /\ CleanBlock(a, j)
                /\ run.first_lc[a] = 0) =>
            /\ run.finishes[a] = 0 => run.jumps[a] <= n
            /\ JustFinished(a) =>
                /\ run.jumps[a] = n
                /\ \A b \in Block(a, j) : run.issued[b] = n + 1
                /\ fsm = "RUN"
                /\ run.ir_addr = (a + 1) % Depth
            /\ RunOver => run.finishes[a] >= 1

\* C3 (amended): a LOOP at address a with count N and jump J <= a, first
\* reached with loop_counter = 0, whose block a-J .. a-1 holds no LOOP and
\* no STOP, jumps exactly N times and every instruction of the block is
\* issued N + 1 times; after that execution falls through to the word
\* following the LOOP, except when the LOOP is the last word of the memory,
\* where the run terminates in that RUN cycle.
C3_LoopIterations ==
    \A a \in Addrs :
        LET n == loop_count(mem[a])
            j == loop_jump(mem[a])
        IN (op_code(mem[a]) = LOOP /\ j <= a /\ CleanBlock(a, j)
                /\ run.first_lc[a] = 0) =>
            /\ run.finishes[a] = 0 => run.jumps[a] <= n
            /\ JustFinished(a) =>
                /\ run.jumps[a] = n
                /\ \A b \in Block(a, j) : run.issued[b] = n + 1
                /\ IF a < Depth - 1
                   THEN fsm = "RUN" /\ run.ir_addr = a + 1
                   ELSE fsm = "READY"
            /\ RunOver => run.finishes[a] >= 1

C3_Witness ==
    \E a \in Addrs :
        /\ op_code(mem[a]) = LOOP
        /\ loop_count(mem[a]) = 2
        /\ loop_jump(mem[a]) = 2
        /\ CleanBlock(a, 2)
        /\ run.first_lc[a] = 0
        /\ JustFinished(a)
        /\ run.jumps[a] = 2
        /\ run.issued[a - 1] = 3

\* The opcodes of the commands seen on the bus, from their RAS/CAS/WE lines
BusOps ==
    [i \in 1 .. Len(run.bus) |->
        4 * (1 - run.bus[i].ras_n) + 2 * (1 - run.bus[i].cas_n)
            + (1 - run.bus[i].we_n)]

\* C4 as stated: a LOOP with count N and jump J at address a re-executes
\* the J + 1 instructions a-J-1 .. a-1, N + 1 times in total, and the
\* program [ACT, PRE, LOOP(count=9, jump=1), STOP] puts 10 ACT/PRE pairs
\* on the bus before the FSM is back in READY.
C4_Original ==
    /\ \A a \in Addrs :
        LET n == loop_count(mem[a])
            j == loop_jump(mem[a])
        IN (op_code(mem[a]) = LOOP /\ j + 1 <= a /\ CleanBlock(a, j + 1)
                /\ run.first_lc[a] = 0 /\ JustFinished(a)) =>
            \A b \in Block(a, j + 1) : run.issued[b] = n + 1
    /\ (RunOver /\ mem = ScenarioLoop(1)) =>
            BusOps = [i \in 1 .. 20 |-> IF i % 2 = 1 THEN ACT ELSE PRE]

\* C4 (amended): a LOOP with count N and jump J <= a at address a
\* re-executes the J instructions a-J .. a-1, N + 1 times in total, and
\* nothing before them; the program [ACT, PRE, LOOP(count=9, jump=1), STOP]
\* puts one ACT followed by 10 PRE on the bus (11 commands) before the FSM
\* is back in READY, and with jump=2 it puts 10 ACT/PRE pairs on it.
C4_LoopBlock ==
    /\ \A a \in Addrs :
        LET n == loop_count(mem[a])
            j == loop_jump(mem[a])
        IN (op_code(mem[a]) = LOOP /\ j <= a /\ CleanBlock(a, j)
                /\ run.first_lc[a] = 0 /\ JustFinished(a)) =>
            /\ \A b \in Block(a, j) : run.issued[b] = n + 1
            /\ (\A c \in 0 .. (a - 1) : op_code(mem[c]) # LOOP) =>
                    \A b \in 0 .. (a - j - 1) : run.issued[b] = 1
    /\ (RunOver /\ mem = ScenarioLoop(1)) =>
            BusOps = <<ACT>> \o [i \in 1 .. 10 |-> PRE]
    /\ (RunOver /\ mem = ScenarioLoop(2)) =>
            BusOps = [i \in 1 .. 20 |-> IF i % 2 = 1 THEN ACT ELSE PRE]

C4_Witness ==
    /\ RunOver
    /\ mem = ScenarioLoop(1)
    /\ Len(run.bus) = 11
    /\ run.jumps[2] = 9
    /\ run.issued[1] = 10
    /\ run.issued[0] = 1


\* C5: a RUN cycle that decodes STOP is followed by READY with wants_dfi
\* dropped, and strobes no command, whatever loop_counter is; when payload
\* word 0 is STOP the first RUN cycle of the run is that cycle and the run
\* issues no command at all.
C5_StopTerminates ==
    /\ (last.fsm = "RUN" /\ stop(last.instruction)) =>
        /\ fsm = "READY"
        /\ wants_dfi = 0
        /\ ~last.exec
        /\ \A p \in Phases : ~NonIdle(dfi[p])
    /\ (stop(mem[0]) /\ run.n >= 1) =>
        /\ run.bus = << >>
        /\ \A a \in Addrs : run.issued[a] = 0
        /\ fsm = "RUN" => (run.run_cycles = 0 /\ stop(instruction))
        /\ fsm = "READY" => (run.run_cycles = 1 /\ run.exec_cycles = PIPELINE_DELAY + 1)

\* a STOP decoded away from the end of the memory, inside an unfinished loop
C5_Witness ==
    /\ last.fsm = "RUN"
    /\ stop(last.instruction)
    /\ last.loop_counter > 0
    /\ last.mem_addr # PIPELINE_DELAY - 1
    /\ fsm = "READY"

\* C6: a phase of the emitter carries a command exactly in the cycle after
\* a RUN cycle that strobed an ACT, PRE, REF, ZQC or READ onto that phase,
\* whatever the timeslice; everywhere else the idle pattern is driven.  The
\* program [ACT(timeslice=4, bank=3, row=0x1234), STOP] puts exactly one
\* command on the bus, the ACT on phase 0.
C6_OneCommandPerInstruction ==
    /\ \A p \in Phases :
        /\ NonIdle(dfi[p]) <=>
            /\ last.fsm = "RUN"
            /\ last.exec
            /\ last.phase = p
            /\ op_code(last.instruction) \in {ACT, PRE, REF, ZQC, READ}
        /\ ~NonIdle(dfi[p]) =>
            /\ \A r \in Ranks : dfi[p].cs_n[r] = 1
            /\ dfi[p].cas_n = 1
            /\ dfi[p].ras_n = 1
            /\ dfi[p].we_n = 1
            /\ dfi[p].rddata_en = 0
    /\ Cardinality({p \in Phases : NonIdle(dfi[p])}) <= 1
    /\ (RunOver /\ mem = ScenarioAct) =>
        run.bus = <<[phase |-> 0, cs_n |-> [r \in Ranks |-> IF r = 1 THEN 0 ELSE 1],
                     ras_n |-> 0, cas_n |-> 1, we_n |-> 1, bank |-> 3,
                     address |-> 4660, rddata_en |-> 0]>>

C6_Witness ==
    /\ RunOver
    /\ mem = ScenarioAct
    /\ Len(run.bus) = 1
    /\ run.issued[0] = 1

\* C7: whenever a phase carries a command, its RAS, CAS and WE lines are the
\* complements of opcode bits 2, 1 and 0 of the instruction decoded in the
\* preceding RUN cycle, and its bank and address lines are the bank and the
\* row-or-column fields of that instruction.
C7_CommandLines ==
    \A p \in Phases :
        NonIdle(dfi[p]) =>
            LET w == last.instruction
                lines == <<dfi[p].ras_n, dfi[p].cas_n, dfi[p].we_n>>
            IN /\ last.fsm = "RUN"
               /\ dfi[p].ras_n = 1 - ((w.op \div 4) % 2)
               /\ dfi[p].cas_n = 1 - ((w.op \div 2) % 2)
               /\ dfi[p].we_n = 1 - (w.op % 2)
               /\ w.op = ACT => lines = <<0, 1, 1>>
               /\ w.op = PRE => lines = <<0, 1, 0>>
               /\ w.op = REF => lines = <<0, 0, 1>>
               /\ w.op = ZQC => lines = <<1, 1, 0>>
               /\ w.op = READ => lines = <<1, 0, 1>>
               /\ dfi[p].bank =
                    (w.tail \div (2 ^ (TIMESLICE + rankbits))) % (2 ^ bankbits)
               /\ dfi[p].address =
                    (w.tail \div (2 ^ (TIMESLICE + rankbits + bankbits)))
                        % (2 ^ rowcolbits)
               /\ w.tail \div (2 ^ TIMESLICE) = AddrA =>
                    (dfi[p].bank = 3 /\ dfi[p].address = 4660)
               /\ w.tail \div (2 ^ TIMESLICE) = AddrB =>
                    (dfi[p].bank = 5 /\ dfi[p].address = 7)

C7_Witness ==
    /\ NonIdle(dfi[0])
    /\ op_code(last.instruction) = PRE
    /\ dfi[0].we_n = 0
    /\ dfi[0].ras_n = 0
    /\ dfi[0].cas_n = 1
    /\ dfi[0].bank = 5
    /\ dfi[0].address = 7

\* C8: after a run in which start was strobed only while the FSM was READY,
\* once the FSM is back in READY exec_stop >= exec_start and their
\* difference is the number of cycles of that run in which executing was
\* asserted.
C8_ExecCounters ==
    (RunOver /\ run.clean) =>
        /\ exec_stop >= exec_start
        /\ exec_stop - exec_start = run.exec_cycles
        /\ run.exec_cycles >= PIPELINE_DELAY + 1

\* a second run, with an instruction that idles
C8_Witness ==
    /\ RunOver
    /\ run.clean
    /\ run.n = 2
    /\ run.exec_cycles = 7
    /\ exec_stop - exec_start = 7


\* A payload of one instruction with timeslice T >= 1 followed by STOP
SingleInstruction ==
    /\ mem \in SinglePrograms
    /\ ~stop(mem[0])
    /\ timeslice(mem[0]) >= 1

\* C9 as stated: for a single instruction with timeslice T followed by
\* STOP, exec_stop - exec_start = T once the run is complete.
C9_Original ==
    (RunOver /\ run.clean /\ SingleInstruction) =>
        exec_stop - exec_start = timeslice(mem[0])

\* C9 (amended): for a single instruction with timeslice T >= 1 followed by
\* STOP, after a run in which start was strobed only in READY,
\* exec_stop - exec_start = T + PIPELINE_DELAY + 1: the two initial bubbles
\* and the RUN cycle that decodes STOP are counted too.  It is 7 for
\* [ACT(timeslice=4), STOP].
C9_SingleInstruction ==
    (RunOver /\ run.clean /\ SingleInstruction) =>
        /\ exec_stop - exec_start = timeslice(mem[0]) + PIPELINE_DELAY + 1
        /\ mem = ScenarioAct => exec_stop - exec_start = 7

C9_Witness ==
    /\ RunOver
    /\ run.clean
    /\ mem[0] = WordNoop(5)
    /\ mem[1] = WordStop
    /\ exec_stop - exec_start = 8

\* C10: with refresh gating the bus switch leaves MEMORY-CONTROLLER for
\* PAYLOAD-EXECUTION only at the end of a cycle in which wants_dfi is high,
\* phase 0 carries a refresh, and at_refresh is 0 or refresh_counter + 1;
\* with at_refresh = R # 0 and start strobed while refresh_counter < R - 1,
\* the executor waits in WAIT-DFI, ready low, until the handover, which
\* happens on the R-th refresh.
C10_GatedHandover ==
    /\ (with_refresh /\ last.dfisw = "MEMORY-CONTROLLER"
            /\ dfisw = "PAYLOAD-EXECUTION") =>
        /\ last.wants_dfi = 1
        /\ last.refresh
        /\ refresh_counter = last.refresh_counter + 1
        /\ (at_refresh = 0 \/ last.refresh_counter + 1 = at_refresh)
    /\ (with_refresh /\ at_refresh # 0 /\ run.n >= 1
            /\ run.rc_at_start < at_refresh - 1) =>
        /\ refresh_counter < at_refresh =>
            (fsm = "WAIT-DFI" /\ ~ready /\ dfisw = "MEMORY-CONTROLLER")
        /\ (last.dfisw = "MEMORY-CONTROLLER" /\ dfisw = "PAYLOAD-EXECUTION") =>
            refresh_counter = at_refresh

C10_Witness ==
    /\ with_refresh
    /\ at_refresh = 3
    /\ run.rc_at_start = 0
    /\ last.dfisw = "MEMORY-CONTROLLER"
    /\ dfisw = "PAYLOAD-EXECUTION"
    /\ refresh_counter = 3
    /\ fsm = "WAIT-DFI"

\* C11: the refresh-timer reset is asserted exactly in the cycles where the
\* bus switch is in PAYLOAD-EXECUTION and wants_dfi is low; that is the one
\* cycle after the RUN cycle that ends a run, never two cycles in a row, and
\* the switch is in MEMORY-CONTROLLER in the cycle after it.
C11_RefresherReset ==
    /\ refresher_reset = 1 <=> (dfisw = "PAYLOAD-EXECUTION" /\ wants_dfi = 0)
    /\ refresher_reset = 1 <=> (last.fsm = "RUN" /\ last.terminate)
    /\ refresher_reset = 1 => (fsm = "READY" /\ last.refresher_reset = 0)
    /\ last.refresher_reset = 1 =>
            (dfisw = "MEMORY-CONTROLLER" /\ refresher_reset = 0)
    /\ (dfisw = "MEMORY-CONTROLLER" \/ wants_dfi = 1) => refresher_reset = 0

\* the pulse that follows the second run
C11_Witness ==
    /\ refresher_reset = 1
    /\ run.n = 2
    /\ last.terminate
    /\ last.dfisw = "PAYLOAD-EXECUTION"

\* The scratchpad word that holds one return of read data on every phase
Word(d) == [p \in Phases |-> d]

\* No registered write is pending, and every return since the last
\* scratchpad reset was valid on every phase
Settled ==
    /\ wr_we = {}
    /\ \A i \in 1 .. Len(seen.since) : seen.since[i].lanes = Phases

\* C12 as stated, for returns that are valid on every phase: with k < capacity
\* cycles of read-valid since the last scratchpad reset, in any pattern,
\* consecutive cycles included, once the writes have settled the cursor is k,
\* words 0 .. k-1 hold the k returns in arrival order, and overflow is 0.
C12_Original ==
    LET k == Len(seen.since)
    IN (Settled /\ k < SpDepth) =>
        /\ sp_counter = k
        /\ sp_overflow = 0
        /\ \A i \in 1 .. k : sp_mem[i - 1] = Word(seen.since[i].data)

\* C12, the part the code keeps: the same when no two read-valid cycles
\* since the reset are consecutive.
C12_SpacedReturns ==
    LET k == Len(seen.since)
    IN (Settled /\ k < SpDepth /\ ~seen.adjacent) =>
        /\ sp_counter = k
        /\ sp_overflow = 0
        /\ \A i \in 1 .. k : sp_mem[i - 1] = Word(seen.since[i].data)

C12_SpacedWitness ==
    /\ Settled
    /\ ~seen.adjacent
    /\ Len(seen.since) = 3
    /\ sp_counter = 3
    /\ sp_mem[2] = Word(seen.since[3].data)

IsPrefix(a, b) == Len(a) <= Len(b) /\ a = SubSeq(b, 1, Len(a))

C14_ResetAtRunStart ==
    /\ (fsm = "WAIT-DFI" /\ dfi_ready = 1) =>
            (sp_counter = 0 /\ sp_overflow = 0)
    /\ (fsm = "BUBBLE" /\ last.fsm = "WAIT-DFI") =>
            (sp_counter = 0 /\ sp_overflow = 0 /\ wr_we = {})

\* second run: the first one left the flag set, and read data arrived in
\* the last WAIT-DFI cycle
C14_Witness ==
    /\ fsm = "BUBBLE"
    /\ last.fsm = "WAIT-DFI"
    /\ last.rv # {}
    /\ run.n = 2
    /\ run.prev.overflow = 1
    /\ sp_counter = 0
    /\ sp_overflow = 0

\* A phase carries a READ command: some rank selected, RAS high, CAS low,
\* WE high
ReadOn(p) ==
    /\ \E r \in Ranks : p.cs_n[r] = 0
    /\ p.ras_n = 1
    /\ p.cas_n = 0
    /\ p.we_n = 1

\* C15: every READ command is driven on phase rdphase and every ACT, PRE,
\* REF and ZQC command on phase 0, and rddata_en is high on a phase in a
\* cycle exactly when that phase carries a READ command in that cycle.
C15_ReadPhase ==
    /\ \A p \in Phases :
        /\ NonIdle(dfi[p]) =>
            /\ op_code(last.instruction) = READ => p = rdphase
            /\ op_code(last.instruction) \in {ACT, PRE, REF, ZQC} => p = 0
        /\ ReadOn(dfi[p]) => p = rdphase
        /\ dfi[p].rddata_en = 1 <=> ReadOn(dfi[p])
    /\ (last.exec /\ op_code(last.instruction) = READ) => ReadOn(dfi[rdphase])
    /\ (last.exec /\ op_code(last.instruction) \in {ACT, PRE, REF, ZQC}) =>
            NonIdle(dfi[0])

C15_Witness ==
    /\ rdphase # 0
    /\ last.exec
    /\ op_code(last.instruction) = READ
    /\ ReadOn(dfi[rdphase])
    /\ dfi[rdphase].rddata_en = 1
    /\ ~NonIdle(dfi[0])

\* The rank field of an instruction word, from its bits
RankField(w) == (w.tail \div (2 ^ TIMESLICE)) % (2 ^ rankbits)

\* C16: the chip select driven for an executed instruction depends only on
\* its opcode and rank field: a NOOP of any timeslice leaves every phase
\* without a command, a REF selects all ranks at once, and ACT, PRE, ZQC
\* and READ select exactly the rank of the rank field.
C16_ChipSelect ==
    /\ last.exec =>
        LET w == last.instruction
            p == dfi[last.phase]
        IN /\ w.op = NOOP =>
                \A q \in Phases :
                    /\ \A r \in Ranks : dfi[q].cs_n[r] = 1
                    /\ dfi[q].ras_n = 1 /\ dfi[q].cas_n = 1 /\ dfi[q].we_n = 1
                    /\ dfi[q].rddata_en = 0
           /\ w.op = REF => \A r \in Ranks : p.cs_n[r] = 0
           /\ w.op \in {ACT, PRE, ZQC, READ} =>
                /\ \A r \in Ranks : p.cs_n[r] = 0 <=> r = RankField(w)
                /\ Cardinality({r \in Ranks : p.cs_n[r] = 0}) = 1
    /\ run.issue_op = NOOP => \A q \in Phases : ~NonIdle(dfi[q])

\* a REF has just been issued: both ranks are selected
C16_Witness ==
    /\ run.issue_op = REF
    /\ last.exec
    /\ op_code(last.instruction) = REF
    /\ \A r \in Ranks : dfi[0].cs_n[r] = 0
    /\ nranks = 2

\* C17: a start strobe begins a run only in READY.  A run that receives a
\* start strobe in WAIT-DFI, BUBBLE, RUN or IDLE goes through the same FSM
\* states, program counters, loop and idle counters and wants_dfi values,
\* cycle by cycle, and puts the same commands on the bus at the same cycles,
\* as a run of the same payload that receives none; and the FSM returns to
\* READY only from a RUN cycle that decodes STOP or sits at the end of the
\* memory.
C17_StartOnlyWhenReady ==
    /\ (last.fsm = "READY" /\ fsm # "READY") => (last.start /\ fsm = "WAIT-DFI")
    /\ (last.fsm = "READY" /\ last.start) => (fsm = "WAIT-DFI" /\ wants_dfi = 1)
    /\ last.fsm = "WAIT-DFI" =>
        /\ fsm = (IF last.dfi_ready = 1 THEN "BUBBLE" ELSE "WAIT-DFI")
        /\ wants_dfi = 1
    /\ (~with_refresh /\ executing) => run.wait_cycles = 2
    /\ (run.n = 2 /\ run.lc_at_start = run.prev.lc_at_start) =>
        /\ IsPrefix(run.hist, run.prev.hist)
        /\ IsPrefix(run.tbus, run.prev.tbus)
        /\ RunOver => (run.hist = run.prev.hist /\ run.tbus = run.prev.tbus)
    /\ (fsm = "READY" /\ last.fsm \notin {"READY", "RESET"}) =>
        /\ last.fsm = "RUN"
        /\ last.terminate
        /\ stop(last.instruction) \/ last.mem_addr = PIPELINE_DELAY - 1

\* the second run of a loop took a start strobe in IDLE and matched the
\* first, which took none
C17_Witness ==
    /\ RunOver
    /\ run.n = 2
    /\ mem = RerunLoop
    /\ run.stray_at = {"IDLE"}
    /\ run.prev.clean
    /\ run.hist = run.prev.hist
    /\ Len(run.tbus) = 4

\* A payload memory without STOP and without LOOP
NoStopNoLoop == \A a \in Addrs : op_code(mem[a]) # LOOP /\ ~stop(mem[a])

\* C18 as stated: without STOP and LOOP the first RUN cycle decodes word 0,
\* and the RUN cycle that terminates the run is the one in which the program
\* counter is D - PIPELINE_DELAY (read either as the fetcher's register or as
\* the address of the word being decoded).
C18_Original ==
    NoStopNoLoop =>
        /\ (fsm = "RUN" /\ run.run_cycles = 0) => run.ir_addr = 0
        /\ (fsm = "RUN" /\ terminate) =>
                \/ program_counter = Depth - PIPELINE_DELAY
                \/ run.ir_addr = Depth - PIPELINE_DELAY

\* C18 (amended): without STOP and LOOP the first RUN cycle decodes word 0,
\* and the run terminates in the RUN cycle in which the program counter has
\* wrapped round to PIPELINE_DELAY - 1, which is the cycle that decodes the
\* last word, D - 1; the words before it are each issued once, the last word
\* is not issued.
C18_EndOfMemory ==
    NoStopNoLoop =>
        /\ (fsm = "RUN" /\ run.run_cycles = 0) =>
                (run.ir_addr = 0 /\ program_counter = PIPELINE_DELAY % Depth)
        /\ fsm = "RUN" =>
                /\ terminate <=> program_counter = PIPELINE_DELAY - 1
                /\ terminate <=> run.ir_addr = Depth - 1
                /\ instruction = mem[run.ir_addr]
        /\ (last.fsm = "RUN" /\ last.terminate) => fsm = "READY"
        /\ RunOver =>
                /\ \A a \in 0 .. (Depth - 2) : run.issued[a] = 1
                /\ run.issued[Depth - 1] = 0

C18_Witness ==
    /\ NoStopNoLoop
    /\ RunOver
    /\ last.fsm = "RUN"
    /\ last.terminate
    /\ last.mem_addr = PIPELINE_DELAY - 1
    /\ last.ir_addr = Depth - 1
    /\ timeslice(mem[Depth - 2]) = 3
    /\ run.issued[Depth - 2] = 1

\* C19: with refresh gating and at_refresh = R # 0, a run whose start finds
\* refresh_counter already at R or above when wants_dfi rises, or that sees no
\* refresh at all after it, never gets the bus: the switch stays in
\* MEMORY-CONTROLLER, the executor stays in WAIT-DFI with ready low, and no
\* executor command is driven.
C19_BlockedHandover ==
    (with_refresh /\ at_refresh # 0 /\ run.n >= 1
        /\ (run.rc_at_wants >= at_refresh \/ refresh_counter = run.rc_at_wants)) =>
        /\ fsm = "WAIT-DFI"
        /\ ~ready
        /\ wants_dfi = 1
        /\ dfisw = "MEMORY-CONTROLLER"
        /\ ext_dfi_sel = 0
        /\ run.bus = << >>
        /\ \A p \in Phases : ~NonIdle(dfi[p])

\* at_refresh = 1 was missed: two more refreshes have passed in WAIT-DFI
C19_Witness ==
    /\ with_refresh
    /\ at_refresh = 1
    /\ run.n = 1
    /\ run.rc_at_wants = 1
    /\ refresh_counter = 3
    /\ fsm = "WAIT-DFI"
    /\ run.wait_cycles >= 6
    /\ dfisw = "MEMORY-CONTROLLER"

\* C20 as stated: the second run of a payload memory puts the same commands
\* on the bus, at the same cycles counted from its first RUN cycle, as the
\* first run of it did, however the first run ended and however long either
\* run waited in WAIT-DFI.
C20_Original ==
    run.n = 2 =>
        /\ IsPrefix(run.tbus, run.prev.tbus)
        /\ RunOver => run.tbus = run.prev.tbus

\* C20, the part the code keeps: the same for a second run that starts with
\* the loop counter the first run started with.
C20_SameLoopCounter ==
    (run.n = 2 /\ run.lc_at_start = run.prev.lc_at_start) =>
        /\ IsPrefix(run.tbus, run.prev.tbus)
        /\ RunOver => run.tbus = run.prev.tbus

C20_SameLoopCounterWitness ==
    /\ RunOver
    /\ run.n = 2
    /\ with_refresh
    /\ run.wait_cycles # run.prev.wait_cycles
    /\ Len(run.tbus) = 2
    /\ run.tbus = run.prev.tbus

(***************************************************************************)
(* Properties of loops and of the start of a run, checked under Spec       *)
(***************************************************************************)
\* the previous cycle was the RUN cycle of a LOOP that did not jump
LoopPassed ==
    /\ last.fsm = "RUN"
    /\ op_code(last.instruction) = LOOP
    /\ ~last.jump

\* the two cycles after a jump are BUBBLE cycles, the third is the RUN cycle
\* of the word at the LOOP's address minus its jump, and nothing was issued
\* in between
JumpCost ==
    /\ run.jumped.age \in 1 .. PIPELINE_DELAY => fsm = "BUBBLE"
    /\ run.jumped.age = 1 + PIPELINE_DELAY =>
        /\ fsm = "RUN"
        /\ run.ir_addr = (run.jumped.from - run.jumped.offset) % Depth
        /\ run.issued = run.jumped.issued

SequentialLoops(a1, a2) ==
    /\ a1 < a2
    /\ \A a \in Addrs : op_code(mem[a]) = LOOP <=> a \in {a1, a2}
    /\ loop_jump(mem[a1]) <= a1
    /\ loop_jump(mem[a2]) < a2 - a1
    /\ CleanBlock(a1, loop_jump(mem[a1]))
    /\ CleanBlock(a2, loop_jump(mem[a2]))

BlocksIssued ==
    \A a1, a2 \in Addrs : SequentialLoops(a1, a2) =>
        \A a \in {a1, a2} :
            JustFinished(a) =>
                \A b \in Block(a, loop_jump(mem[a])) :
                    run.issued[b] = loop_count(mem[a]) + 1

\* C29 as stated: a LOOP that finds its iterations finished leaves
\* loop_counter = 0, and of two sequential loops with counts N1 and N2 the
\* first block is issued N1 + 1 times and the second N2 + 1 times.
C29_Original ==
    /\ LoopPassed => loop_counter = 0
    /\ BlocksIssued

\* C29, the part the code keeps: the block counts, in a run that starts
\* with loop_counter = 0.
C29_FromZero == run.lc_at_start = 0 => BlocksIssued

C29_FromZeroWitness ==
    /\ run.lc_at_start = 0
    /\ SequentialLoops(1, 3)
    /\ JustFinished(3)
    /\ run.issued[0] = 3
    /\ run.issued[2] = 2

\* C30: in every run the FSM leaves WAIT-DFI, in the cycle that sees
\* dfi_ready, for exactly two BUBBLE cycles; the RUN cycle after them
\* decodes payload word 0, and up to and including that RUN cycle the
\* executor has put no command on the bus.
C30_RunStart ==
    /\ (last.fsm = "WAIT-DFI" /\ last.dfi_ready = 1) =>
           (fsm = "BUBBLE" /\ Len(run.hist) = 0)
    /\ (run.n >= 1 /\ fsm # "READY") =>
        /\ fsm = "WAIT-DFI" => Len(run.hist) = 0
        /\ (executing /\ Len(run.hist) < PIPELINE_DELAY) => fsm = "BUBBLE"
        /\ (executing /\ Len(run.hist) = PIPELINE_DELAY) =>
            /\ fsm = "RUN"
            /\ instruction = mem[0]
            /\ run.ir_addr = 0
        /\ Len(run.hist) <= PIPELINE_DELAY =>
            (run.bus = << >> /\ BusNow = << >>)

\* the first RUN cycle of a second run that was started in the first READY
\* cycle after a run that ended with the fetcher far from word 0
C30_Witness ==
    /\ run.n = 2
    /\ run.waited = 0
    /\ mem = RerunLoop
    /\ fsm = "RUN"
    /\ Len(run.hist) = PIPELINE_DELAY
    /\ instruction = mem[0]
    /\ Len(run.prev.tbus) = 4

(***************************************************************************)
(* Properties of the Encoder, checked under EncSpec                        *)
(***************************************************************************)
Encoded == payload.st \in {"encoded", "loaded"}
Answered == payload.st \in {"encoded", "loaded", "rejected"}
DfiAsked == Asked.op_code \in DfiOps

RECURSIVE SumTimeslices(_, _)
SumTimeslices(ws, k) ==
    IF k > Len(ws) THEN 0 ELSE timeslice(ws[k]) + SumTimeslices(ws, k + 1)

\* the instructions that fit one word
SingleWord(I) ==
    IF I.op_code = LOOP THEN I.count < 2 ^ LOOP_COUNT /\ I.jump < 2 ^ LOOP_JUMP
    ELSE IF I.op_code = NOOP THEN I.timeslice <= 2 ^ TIMESLICE_NOOP - 1
    ELSE /\ 1 <= I.timeslice /\ I.timeslice <= 2 ^ TIMESLICE - 1
         /\ I.address # None /\ I.address < 2 ^ ADDRESS

\* C21: an instruction whose fields fit one word (a DFI instruction with
\* timeslice 1..31 and an address below 2^24, a NOOP with a timeslice below
\* 2^29, a LOOP with count below 2^12 and jump below 2^17) is encoded as
\* exactly one word of 32 bits, from which the decoder recovers the opcode
\* and the timeslice and address, or the count and jump, it was built from.
C21_RoundTrip ==
    (Answered /\ SingleWord(Asked)) =>
        /\ payload.st # "rejected"
        /\ Len(payload.words) = 1
        /\ LET w == payload.words[1]
           IN  /\ w.op \in 0 .. (2 ^ OP_CODE - 1)
               /\ w.tail \in 0 .. (2 ^ TIMESLICE_NOOP - 1)
               /\ op_code(w) = Asked.op_code
               /\ IF Asked.op_code = LOOP
                  THEN /\ loop_count(w) = Asked.count
                       /\ loop_jump(w) = Asked.jump
                  ELSE IF Asked.op_code = NOOP
                  THEN timeslice(w) = Asked.timeslice
                  ELSE /\ timeslice(w) = Asked.timeslice
                       /\ address(w) = Asked.address

\* the longest NOOP has been encoded
C21_Witness ==
    /\ payload.st = "encoded"
    /\ Asked = NoopI(2 ^ TIMESLICE_NOOP - 1)
    /\ timeslice(payload.words[1]) = 2 ^ TIMESLICE_NOOP - 1

\* C22: a DFI instruction asked for with timeslice T >= 1 is encoded as one
\* word of its opcode followed by NOOP words only, none of them a STOP; the
\* decoded timeslices of all the words add up to T, and once the words are
\* loaded and run, the RUN cycle of the word behind them comes exactly T
\* cycles after the RUN cycle of the first.
C22_TotalDuration ==
    (Encoded /\ DfiAsked /\ Asked.timeslice >= 1) =>
        LET ws == payload.words
        IN  /\ Len(ws) >= 1
            /\ op_code(ws[1]) = Asked.op_code
            /\ \A k \in 2 .. Len(ws) : op_code(ws[k]) = NOOP /\ ~stop(ws[k])
            /\ SumTimeslices(ws, 1) = Asked.timeslice
            /\ (payload.st = "loaded" /\ fsm = "RUN" /\ run.ir_addr = Len(ws))
                   => run.run_clock = Asked.timeslice

\* a timeslice of 32 has been run to the word behind its three words
C22_Witness ==
    /\ payload.st = "loaded"
    /\ DfiAsked
    /\ Asked.timeslice = 2 ^ TIMESLICE
    /\ Len(payload.words) = 3
    /\ fsm = "RUN"
    /\ run.ir_addr = 3
    /\ run.run_clock = 2 ^ TIMESLICE

\* C23, as stated: a DFI instruction with timeslice T > 31 is encoded as
\* ceil((T - 31) / (2^29 - 1)) + 1 words, the first with timeslice 31, the
\* NOOPs behind it adding up to T - 31.
C23_Original ==
    (Encoded /\ DfiAsked /\ Asked.timeslice > 2 ^ TIMESLICE - 1) =>
        LET ws == payload.words
            over == Asked.timeslice - (2 ^ TIMESLICE - 1)
            longest == 2 ^ TIMESLICE_NOOP - 1
        IN  /\ Len(ws) = (over + longest - 1) \div longest + 1
            /\ timeslice(ws[1]) = 2 ^ TIMESLICE - 1
            /\ SumTimeslices(ws, 2) = over

\* C24: the encoder rejects, returning no word, a LOOP with count >= 2^12,
\* a NOOP with timeslice >= 2^29, a DFI instruction with timeslice 0, and
\* an ACT, PRE, ZQC or READ without an address; a REF without an address
\* and with a timeslice above 0 is encoded, with address 0.
C24_Validation ==
    (Answered /\ request.kind = "encode") =>
        LET I == request.I
            rejected == payload.st = "rejected" /\ payload.words = << >>
        IN  /\ (I.op_code = LOOP /\ I.count >= 2 ^ LOOP_COUNT) => rejected
            /\ (I.op_code = NOOP /\ I.timeslice >= 2 ^ TIMESLICE_NOOP) => rejected
            /\ (I.op_code \in DfiOps /\ I.timeslice = 0) => rejected
            /\ (I.op_code \in {ACT, PRE, ZQC, READ} /\ I.address = None)
                   => rejected
            /\ (I.op_code = REF /\ I.address = None /\ I.timeslice >= 1) =>
                   /\ Encoded
                   /\ op_code(payload.words[1]) = REF
                   /\ address(payload.words[1]) = 0

\* a PRE without an address has been rejected
C24_Witness ==
    /\ payload.st = "rejected"
    /\ request.kind = "encode"
    /\ request.I = DfiI(PRE, 1, None)

\* C25, as stated: a LOOP whose jump does not fit 17 bits, and a DFI
\* instruction whose address does not fit 24 bits, are rejected.
C25_Original ==
    (Answered /\ request.kind = "encode") =>
        LET I == request.I
        IN  /\ (I.op_code = LOOP /\ I.jump >= 2 ^ LOOP_JUMP)
                   => payload.st = "rejected"
            /\ (I.op_code \in DfiOps /\ I.address # None
                    /\ I.address >= 2 ^ ADDRESS)
                   => payload.st = "rejected"

\* C26: an address packed from a rank below nranks, a bank below
\* 2^bankbits and a row or a column below 2^max(rowbits, colbits) is
\* decoded, from the instruction that carries it, into the same rank, bank
\* and row or column, and into address 0 where neither was given.
C26_AddressRoundTrip ==
    (Encoded /\ request.kind = "address") =>
        LET w == payload.words[1]
        IN  /\ dfi_rank(w) = request.rank
            /\ dfi_bank(w) = request.bank
            /\ dfi_address(w) =
                   (IF request.row # None THEN request.row
                    ELSE IF request.col # None THEN request.col ELSE 0)

\* the highest rank, bank and row have been packed and encoded
C26_Witness ==
    /\ payload.st = "encoded"
    /\ request.kind = "address"
    /\ request.rank = nranks - 1
    /\ request.bank = 2 ^ bankbits - 1
    /\ request.row = 2 ^ rowcolbits - 1
    /\ dfi_address(payload.words[1]) = 2 ^ rowcolbits - 1

(***************************************************************************)
(* Termination, checked under LiveSpec                                     *)
(***************************************************************************)
\* the addresses a LOOP at address a runs through again after its jump: from
\* its target up to the LOOP itself
Rerun(a) == {(a - k) % Depth : k \in 0 .. (loop_jump(mem[a]) % Depth)}

\* no LOOP lies in the addresses another LOOP runs through again
NoNestedLoops ==
    \A a, b \in Addrs :
        (a # b /\ op_code(mem[a]) = LOOP /\ op_code(mem[b]) = LOOP)
            => b \notin Rerun(a)

\* C27: with the refresh gating off and a payload memory without nested
\* loops, with or without a STOP, a start strobed in READY takes the FSM out
\* of READY and the FSM is back in READY some time later.
C27_Terminates ==
    []((NoNestedLoops /\ last.fsm = "READY" /\ last.start)
          => (fsm # "READY" /\ <>(fsm = "READY")))

\* a run of two loops and no STOP has ended, on the second loop in the last
\* word of the memory
C27_Witness ==
    /\ mem = WrapLoops
    /\ NoNestedLoops
    /\ fsm = "READY"
    /\ last.fsm = "RUN"
    /\ last.terminate
    /\ op_code(last.instruction) = LOOP
    /\ last.loop_counter = 2


\* the number of REF commands among the opcodes of a trace
RECURSIVE CountRef(_)
CountRef(t) ==
    IF t = << >> THEN 0
    ELSE Bit(Head(t) = REF) + CountRef(Tail(t))

\* C31: the refresh counter goes up by exactly one at the end of every cycle
\* in which phase 0 of the bus carries a refresh and is unchanged otherwise,
\* whoever owns the bus: a refresh of the memory controller counts, and once
\* a run is over the counter has advanced by the controller's refreshes plus
\* one for each REF instruction the payload issued, whatever its timeslice.
C31_RefreshCount ==
    /\ refresh_counter = last.refresh_counter + Bit(last.refresh)
    /\ (last.dfisw = "MEMORY-CONTROLLER" /\ last.mc_ref) =>
            refresh_counter = last.refresh_counter + 1
    /\ (last.dfisw = "PAYLOAD-EXECUTION" /\ IsRefresh(last.dfi0)) =>
            refresh_counter = last.refresh_counter + 1
    /\ (RunOver /\ ~env.mc_refresh) =>
            refresh_counter - run.rc_at_start = CountRef(run.trace)

C31_Witness ==
    /\ RunOver
    /\ ~env.mc_refresh
    /\ op_code(mem[0]) = REF
    /\ timeslice(mem[0]) > 1
    /\ run.trace = <<REF>>
    /\ refresh_counter = run.rc_at_start + 1
    /\ last.dfisw = "PAYLOAD-EXECUTION"


\* C32: the refresh_count status changes only at the end of the first
\* PAYLOAD-EXECUTION cycle that follows a MEMORY-CONTROLLER cycle or at the
\* end of a cycle with a refresh_update strobe; after a gated handover with
\* at_refresh = R # 0 the value latched at the handover is R.
C32_RefreshCountLatch ==
    /\ refresh_count # last.refresh_count =>
            \/ last.refresh_update
            \/ last.dfisw = "PAYLOAD-EXECUTION" /\ last.before = "MEMORY-CONTROLLER"
    /\ (~last.refresh_update /\ ~(last.dfisw = "PAYLOAD-EXECUTION"
                                    /\ last.before = "MEMORY-CONTROLLER")) =>
            refresh_count = last.refresh_count
    /\ (last.dfisw = "PAYLOAD-EXECUTION" /\ last.before = "MEMORY-CONTROLLER"
            /\ with_refresh /\ at_refresh # 0) =>
            refresh_count = at_refresh

C32_Witness ==
    /\ with_refresh
    /\ at_refresh = 2
    /\ last.dfisw = "PAYLOAD-EXECUTION"
    /\ last.before = "MEMORY-CONTROLLER"
    /\ seen.updates = 1
    /\ last.refresh_count = 1
    /\ refresh_count = 2


\* C33 as stated: the overflow flag is set by the capture that fills the
\* last slot: once the writes of exactly SpDepth read-valid cycles since the
\* reset have settled, the cursor reads 0 and overflow is 1 while every slot
\* still holds the return that was captured into it; and overflow is 0
\* exactly while fewer than SpDepth captures have been counted.
C33_Original ==
    LET k == Len(seen.since)
    IN /\ (Settled /\ k = SpDepth) =>
            /\ sp_counter = 0
            /\ sp_overflow = 1
            /\ \A i \in 1 .. SpDepth : sp_mem[i - 1] = Word(seen.since[i].data)
       /\ wr_we = {} => (sp_overflow = 0 <=> k < SpDepth)

\* C33, the part the code keeps: the cursor and the flag after SpDepth
\* captures in any pattern, and the slots when no two read-valid cycles are
\* consecutive.
C33_FlagAndCursor ==
    LET k == Len(seen.since)
    IN /\ (wr_we = {} /\ k = SpDepth) => (sp_counter = 0 /\ sp_overflow = 1)
       /\ (Settled /\ k = SpDepth /\ ~seen.adjacent) =>
            \A i \in 1 .. SpDepth : sp_mem[i - 1] = Word(seen.since[i].data)
       /\ wr_we = {} => (sp_overflow = 0 <=> k < SpDepth)

C33_SpacedWitness ==
    /\ Settled
    /\ ~seen.adjacent
    /\ Len(seen.since) = SpDepth
    /\ sp_overflow = 1
    /\ sp_counter = 0
    /\ sp_mem[SpDepth - 1] = Word(seen.since[SpDepth].data)


\* C34: the fetcher's step.  With stall low the program counter becomes
\* pc + 1 when jump is low and pc - jump_offset - PIPELINE_DELAY (modulo the
\* depth the address addresses) when jump is high, the old counter takes the
\* previous pc, the memory sees pc and reset_pc has no effect; with stall
\* high the memory sees the old counter and both counters keep their values
\* unless reset_pc is high, which sets both to 0.
C34_FetcherStep ==
    /\ ~last.stall =>
        /\ program_counter =
              IF ~last.jump
              THEN (last.program_counter + 1) % Depth
              ELSE (last.program_counter - last.jump_offset - PIPELINE_DELAY) % Depth
        /\ program_counter_old = last.program_counter
        /\ last.mem_addr = last.program_counter
    /\ last.stall =>
        /\ last.mem_addr = last.program_counter_old
        /\ IF last.reset_pc
           THEN program_counter = 0 /\ program_counter_old = 0
           ELSE /\ program_counter = last.program_counter
                /\ program_counter_old = last.program_counter_old

\* a jump that wraps below address 0, taken after a stalled cycle moved
\* nothing
C34_Witness ==
    /\ last.fsm = "RUN"
    /\ last.jump
    /\ ~last.stall
    /\ last.program_counter - last.jump_offset - PIPELINE_DELAY < 0
    /\ program_counter = (last.program_counter - last.jump_offset - PIPELINE_DELAY) % Depth
    /\ program_counter_old = last.program_counter
    /\ run.wait_cycles >= 2


\* C35: in every reachable cycle wants_dfi is asserted if and only if the
\* executor FSM is not in READY, ready if and only if it is in READY, and
\* executing if and only if it is in RUN, IDLE or BUBBLE; ready and
\* executing are never asserted together.
C35_StatusSignals ==
    /\ wants_dfi = 1 <=> fsm # "READY"
    /\ ready <=> fsm = "READY"
    /\ executing <=> fsm \in {"RUN", "IDLE", "BUBBLE"}
    /\ ~(ready /\ executing)
    /\ fsm \in {"READY", "WAIT-DFI", "RUN", "IDLE", "BUBBLE"}

\* the request of a second run, after READY has dropped the first
C35_Witness ==
    /\ fsm = "IDLE"
    /\ run.n = 2
    /\ wants_dfi = 1
    /\ executing
    /\ ~ready
    /\ run.prev.n = 1


\* C36: the executor only runs while it owns the bus: whenever the FSM is in
\* RUN, IDLE or BUBBLE the switch is in PAYLOAD-EXECUTION, and every cycle in
\* which the emitter's outputs carry a command (a cs_n bit low or rddata_en
\* high), the last one before the termination included, is a cycle in which
\* the switch is in PAYLOAD-EXECUTION.
C36_RunsWhileOwner ==
    /\ fsm \in {"RUN", "IDLE", "BUBBLE"} => dfisw = "PAYLOAD-EXECUTION"
    /\ (\E p \in Phases : NonIdle(dfi[p])) =>
            (dfisw = "PAYLOAD-EXECUTION" /\ ext_dfi_sel = 1)
    /\ (last.exec /\ op_code(last.instruction) # NOOP) =>
            ((\E p \in Phases : NonIdle(dfi[p])) /\ dfisw = "PAYLOAD-EXECUTION")

\* the last command of a gated run is on the bus in the terminating cycle
C36_Witness ==
    /\ with_refresh
    /\ fsm = "RUN"
    /\ terminate
    /\ last.exec
    /\ op_code(last.instruction) = ACT
    /\ \E p \in Phases : NonIdle(dfi[p])
    /\ dfisw = "PAYLOAD-EXECUTION"


\* C37: pipeline coherence.  In every RUN cycle the instruction register
\* holds the payload word at address (pc - PIPELINE_DELAY) modulo the depth,
\* after any sequence of one-cycle instructions, IDLE stalls and taken
\* jumps; from one RUN cycle to the next the decoded address advances by
\* one, so that no word is skipped or decoded twice, except by a taken jump,
\* which rewinds it by the jump offset.
C37_PipelineCoherence ==
    fsm = "RUN" =>
        /\ instruction = mem[(program_counter - PIPELINE_DELAY) % Depth]
        /\ run.ir_addr = (program_counter - PIPELINE_DELAY) % Depth
        /\ mem_data = mem[(program_counter - PIPELINE_DELAY + 1) % Depth]
        /\ (run.decoded.addr # NoAddr /\ ~run.decoded.jump) =>
                run.ir_addr = (run.decoded.addr + 1) % Depth
        /\ run.decoded.jump =>
                run.ir_addr = (run.decoded.addr - run.decoded.offset) % Depth
        /\ run.decoded.addr = NoAddr => run.ir_addr = 0

\* a RUN cycle reached through an IDLE stall, after a jump was taken
C37_Witness ==
    /\ fsm = "RUN"
    /\ last.fsm = "IDLE"
    /\ \E a \in Addrs : run.jumps[a] >= 1
    /\ ~run.decoded.jump
    /\ run.ir_addr = (run.decoded.addr + 1) % Depth
    /\ instruction = mem[run.ir_addr]


\* C38 as stated: whenever the FSM is in READY, loop_counter is 0, however
\* the run ended, so that every run starts with a fresh counter.
C38_Original ==
    /\ fsm = "READY" => loop_counter = 0
    /\ run.n >= 1 => run.lc_at_start = 0


C40_Original ==
    /\ (last.exec_start # 0 /\ ~(last.fsm = "READY" /\ last.start)) =>
            exec_start = last.exec_start
    /\ (last.start /\ last.fsm \in {"WAIT-DFI", "RUN", "IDLE", "BUBBLE"}) =>
            /\ exec_start = IF last.fsm # "WAIT-DFI" /\ last.exec_start = 0
                            THEN last.cycle_counter ELSE last.exec_start
            /\ exec_stop = IF last.fsm # "WAIT-DFI"
                           THEN last.cycle_counter + 1 ELSE last.exec_stop

\* C40, the part the code keeps: the snapshot is held through every cycle
\* without a start strobe, and a strobe outside READY never disturbs
\* exec_stop.
C40_WithoutStrobe ==
    /\ (last.exec_start # 0 /\ ~last.start) => exec_start = last.exec_start
    /\ (last.start /\ last.fsm \in {"WAIT-DFI", "RUN", "IDLE", "BUBBLE"}) =>
            exec_stop = IF last.fsm # "WAIT-DFI"
                        THEN last.cycle_counter + 1 ELSE last.exec_stop

=============================================================================
